---------------------------- MODULE Spec2Model ----------------------------
(***************************************************************************)
(* A model of backend/scripts/create_vector_db.py of the eCFR repository:  *)
(* the chunker (extract_text_from_content), the build pipeline             *)
(* (create_vector_database) with its eight file writes, and the query      *)
(* (test_vector_search) that reads the "latest" files without any lock.    *)
(*                                                                         *)
(* Text.  A Python str is modelled as a sequence of tokens.  A token is a  *)
(* maximal run of non-whitespace characters (a word: w is its identity, n  *)
(* its number of characters) or a maximal run of whitespace (w = 0, n its  *)
(* number of characters).  len(), str.split(), str.strip(), " ".join() and *)
(* + are computed on that representation, so that the character budget     *)
(* CHUNK_SIZE and the word budget CHUNK_OVERLAP // 10 keep their values.   *)
(***************************************************************************)
EXTENDS Integers, Sequences, FiniteSets, TLC

(* ----------------------------- constants ------------------------------ *)

CHUNK_SIZE == 512
CHUNK_OVERLAP == 128
MODEL_NAME == "all-MiniLM-L6-v2"

(* ------------------------------- bounds -------------------------------- *)

\* Longest sentence list of the sections the chunker specification draws.
MaxSent == 3
\* Build runs of one behaviour of the pipeline specification, the run that
\* left the database a behaviour can start with not counted.
MaxRuns == 1
\* Largest top_k a query is called with.
MaxTopK == 2
\* Most collection summaries of an input directory the loader specification draws.
MaxFiles == 3
\* Most titles a run of the collector goes through.
MaxTitles == 2
\* Most titles a call of the bulk download submits.
MaxUrls == 3

None == [none |-> TRUE]

Min(a, b) == IF a < b THEN a ELSE b

(* -------------------------------- text --------------------------------- *)

W(id, n) == [w |-> id, n |-> n]
WS(n) == [w |-> 0, n |-> n]
IsSpace(t) == t.w = 0

\* The str " ".
SP == <<WS(1)>>

\* len(s): the number of characters.
RECURSIVE StrLen(_)
StrLen(s) == IF s = <<>> THEN 0 ELSE Head(s).n + StrLen(Tail(s))

\* a + b; two whitespace runs that meet are one run.
Cat(a, b) ==
  IF a # <<>> /\ b # <<>> /\ IsSpace(a[Len(a)]) /\ IsSpace(Head(b))
  THEN SubSeq(a, 1, Len(a) - 1) \o <<WS(a[Len(a)].n + Head(b).n)>> \o Tail(b)
  ELSE a \o b

\* s.split(): the words, whitespace dropped.
SplitWords(s) == SelectSeq(s, LAMBDA t : ~IsSpace(t))

\* " ".join(words)
RECURSIVE JoinSp(_)
JoinSp(words) ==
  IF words = <<>> THEN <<>>
  ELSE IF Len(words) = 1 THEN <<words[1]>>
  ELSE <<words[1], WS(1)>> \o JoinSp(Tail(words))

\* s.strip(): leading and trailing whitespace removed.
RECURSIVE Strip(_)
Strip(s) ==
  IF s = <<>> THEN <<>>
  ELSE IF IsSpace(Head(s)) THEN Strip(Tail(s))
  ELSE IF IsSpace(s[Len(s)]) THEN Strip(SubSeq(s, 1, Len(s) - 1))
  ELSE s

\* words[-k:]  (Python: -0 is 0, so k = 0 gives the whole list).
LastK(words, k) ==
  IF k = 0 THEN words ELSE SubSeq(words, Len(words) - k + 1, Len(words))

(* ------------------------------- chunker ------------------------------- *)

\* f"Title {title_num}, Part {part_num}, Section {section_num}"
SourceLabel(t, p, s) == <<"Title ", t, ", Part ", p, ", Section ", s>>

\* The dict appended to text_chunks (lines 130-138 and 149-157).
ChunkRecord(title, part, section, cur) ==
  [title_num |-> title.num, title_name |-> title.name, part_num |-> part.num,
   section_num |-> section.section, section_title |-> section.title,
   text |-> Strip(cur),
   source |-> SourceLabel(title.num, part.num, section.section)]

\* Mutant of SplitNeeded: the length of the buffer is left out.
SplitNeededSentenceOnly(cur, sentence) == StrLen(sentence) > CHUNK_SIZE

\* len(current_chunk) + len(sentence) > CHUNK_SIZE
SplitNeeded(cur, sentence) == StrLen(cur) + StrLen(sentence) > CHUNK_SIZE

\* s[:n]: the first n characters.
RECURSIVE TakeChars(_, _)
TakeChars(s, n) ==
  IF s = <<>> \/ n = 0 THEN <<>>
  ELSE IF Head(s).n <= n THEN <<Head(s)>> \o TakeChars(Tail(s), n - Head(s).n)
  ELSE <<[w |-> Head(s).w, n |-> n]>>

\* Mutant of OverlapWords: the leading words, words[:k], for the trailing ones.
OverlapWordsLeading(words) ==
  SubSeq(words, 1, Min(Len(words), CHUNK_OVERLAP \div 10))

\* words[-min(len(words), CHUNK_OVERLAP // 10):]
OverlapWords(words) == LastK(words, Min(Len(words), CHUNK_OVERLAP \div 10))

\* Mutant of NewChunk: a sentence longer than CHUNK_SIZE is cut to CHUNK_SIZE.
NewChunkTruncating(cur, sentence) ==
  Cat(Cat(JoinSp(OverlapWords(SplitWords(cur))), SP), TakeChars(sentence, CHUNK_SIZE))

\* " ".join(overlap_words) + " " + sentence
NewChunk(cur, sentence) ==
  Cat(Cat(JoinSp(OverlapWords(SplitWords(cur))), SP), sentence)

\* current_chunk += " " + sentence
Extend(cur, sentence) == Cat(Cat(cur, SP), sentence)

\* Mutant of EmitAtSplit: current_chunk is appended without looking at it.
EmitAtSplitAlways(title, part, section, cur) ==
  <<ChunkRecord(title, part, section, cur)>>

\* The chunks the split branch appends: current_chunk, if it is not "".
EmitAtSplit(title, part, section, cur) ==
  IF cur # <<>> THEN <<ChunkRecord(title, part, section, cur)>> ELSE <<>>

\* Mutant of EmitAtEnd: the buffer left after the loop is never appended.
EmitAtEndForgotten(title, part, section, cur) == <<>>

\* The chunks appended after the loop: current_chunk, if its strip() is not "".
EmitAtEnd(title, part, section, cur) ==
  IF Strip(cur) # <<>> THEN <<ChunkRecord(title, part, section, cur)>> ELSE <<>>

(* -------------------------------- state -------------------------------- *)

VARIABLES
  \* create_vector_database, one run at a time
  bpc,            \* the position of the run
  run,            \* the number of runs started; names the run that wrote a file,
                  \* 0 naming the run before the behaviour
  content_data,   \* data["content"]: None, or the collection summary with each
                  \* part's sections file read in place
  ti, pi, si, ki, \* the loops over titles, parts, sections and sentences
  current_chunk,
  text_chunks,
  embeddings,
  index,
  timestamp,
  wopen,          \* the file of the current write is open (and truncated)
  bresult,        \* what the run returned: None, or the metadata
  before,         \* the files as they were when the run started, and the input
                  \* directory as the run before it found it
  succeeded,      \* the last run that returned the metadata; -1 when none has
  \* the input directory, the output directory and the clock
  input_dir,
  now,
  latest,
  stamped,
  \* test_vector_search, one call at a time
  qpc,
  top_k,
  q_metadata,
  q_chunks,
  q_index,
  q_indices,
  q_distances,
  q_results,
  q_scores,       \* the "score" of each dict of the returned list
  \* hybrid_collector.collect_data, one run
  cpc,            \* the position of the run
  c_titles,       \* titles: the title numbers the run goes through
  c_ti,           \* the loop over titles
  c_parts,        \* parts: the part numbers of the structure of the title
  c_pi,           \* the loop over parts
  part_results,
  title_results,
  sections_files, \* the sections file of each title and part: absent, cut
                  \* short or whole
  summary,        \* the collection summary: None, or what was dumped
  c_log,          \* what has happened: the titles whose structure scrape
                  \* failed, the parts a scrape was tried for, the parts a
                  \* scrape wrote the sections file of
  \* download_bulk_data.download_all_titles, one call
  ppc,            \* the position of the main thread
  title_urls,     \* the titles submitted, numbered from 1
  future,         \* the state of the future of each title
  yielded,        \* the futures as_completed has given to the main thread
  results,        \* the list the main thread appends to
  errors,         \* the titles whose error the main thread has logged
  totals          \* None, or the totals of the summary line

loopVars == <<ti, pi, si, ki, current_chunk>>
buildVars == <<bpc, run, content_data, ti, pi, si, ki, current_chunk, text_chunks,
               embeddings, index, timestamp, wopen, bresult, before, succeeded>>
fileVars == <<input_dir, now, latest, stamped>>
queryVars == <<qpc, top_k, q_metadata, q_chunks, q_index, q_indices, q_distances,
               q_results, q_scores>>
collectVars == <<cpc, c_titles, c_ti, c_parts, c_pi, part_results, title_results,
                 sections_files, summary, c_log>>
poolVars == <<ppc, title_urls, future, yielded, results, errors, totals>>
otherVars == <<collectVars, poolVars>>
pipelineVars == <<buildVars, fileVars, queryVars>>
vars == <<buildVars, fileVars, queryVars, otherVars>>

(* ------------------------ extract_text_from_content -------------------- *)

Results == content_data.results
CurTitle == Results[ti]
CurPart == CurTitle.parts[pi]
CurSection == CurPart.sections[si]
\* sent_tokenize(content): the section's content is given as its sentences.
Sentences == CurSection.sentences

\* Mutant of ExtractBegin: the list starts as the latest chunk list on disk, if
\* there is one, and the run's chunks are appended to it.
ExtractBeginAppending ==
  /\ bpc = "extract"
  /\ text_chunks' = IF latest["text_chunks"].st = "full"
                    THEN latest["text_chunks"].data.chunks ELSE <<>>
  /\ IF content_data = None
     THEN bpc' = "check_chunks" /\ UNCHANGED loopVars
     ELSE bpc' = "titles" /\ ti' = 1 /\ UNCHANGED <<pi, si, ki, current_chunk>>
  /\ UNCHANGED <<run, content_data, embeddings, index, timestamp, wopen, bresult,
                 before, succeeded, fileVars, queryVars, otherVars>>

\* Lines 92-99: no content data returns []; otherwise the loops start.
ExtractBegin ==
  /\ bpc = "extract"
  /\ text_chunks' = <<>>
  /\ IF content_data = None
     THEN bpc' = "check_chunks" /\ UNCHANGED loopVars
     ELSE bpc' = "titles" /\ ti' = 1 /\ UNCHANGED <<pi, si, ki, current_chunk>>
  /\ UNCHANGED <<run, content_data, embeddings, index, timestamp, wopen, bresult,
                 before, succeeded, fileVars, queryVars, otherVars>>

\* The locals of extract_text_from_content are gone when it returns.
LoopLocalsGone ==
  /\ ti' = 1 /\ pi' = 1 /\ si' = 1 /\ ki' = 1
  /\ current_chunk' = <<>>

\* Lines 102-104 and 159-160: the next title, or return text_chunks.
NextTitle ==
  /\ bpc = "titles"
  /\ IF ti > Len(Results)
     THEN bpc' = "check_chunks" /\ LoopLocalsGone
     ELSE bpc' = "parts" /\ pi' = 1 /\ UNCHANGED <<ti, si, ki, current_chunk>>
  /\ UNCHANGED <<run, content_data, text_chunks,
                 embeddings, index, timestamp, wopen, bresult, before, succeeded,
                 fileVars, queryVars, otherVars>>

\* Mutant of NextPart: a part that is passed over ends the loop over the parts
\* of its title.
NextPartBreaking ==
  /\ bpc = "parts"
  /\ IF pi > Len(CurTitle.parts)
     THEN bpc' = "titles" /\ ti' = ti + 1 /\ UNCHANGED <<pi, si>>
     ELSE IF CurPart.sections_file = "ok"
     THEN bpc' = "sections" /\ si' = 1 /\ UNCHANGED <<ti, pi>>
     ELSE bpc' = "titles" /\ ti' = ti + 1 /\ UNCHANGED <<pi, si>>
  /\ UNCHANGED <<run, content_data, ki, current_chunk, text_chunks,
                 embeddings, index, timestamp, wopen, bresult, before, succeeded,
                 fileVars, queryVars, otherVars>>

\* Lines 107-112: the next part; one with no sections_file, or whose file does
\* not exist, is passed over.
NextPart ==
  /\ bpc = "parts"
  /\ IF pi > Len(CurTitle.parts)
     THEN bpc' = "titles" /\ ti' = ti + 1 /\ UNCHANGED <<pi, si>>
     ELSE IF CurPart.sections_file = "ok"
     THEN bpc' = "sections" /\ si' = 1 /\ UNCHANGED <<ti, pi>>
     ELSE bpc' = "parts" /\ pi' = pi + 1 /\ UNCHANGED <<ti, si>>
  /\ UNCHANGED <<run, content_data, ki, current_chunk, text_chunks,
                 embeddings, index, timestamp, wopen, bresult, before, succeeded,
                 fileVars, queryVars, otherVars>>

\* Mutant of NextSection: current_chunk is not reset for a new section.
NextSectionKeepingBuffer ==
  /\ bpc = "sections"
  /\ IF si > Len(CurPart.sections)
     THEN bpc' = "parts" /\ pi' = pi + 1 /\ UNCHANGED <<si, ki, current_chunk>>
     ELSE IF CurSection.present
     THEN bpc' = "sentences" /\ ki' = 1 /\ UNCHANGED <<pi, si, current_chunk>>
     ELSE bpc' = "sections" /\ si' = si + 1 /\ UNCHANGED <<pi, ki, current_chunk>>
  /\ UNCHANGED <<run, content_data, ti, text_chunks,
                 embeddings, index, timestamp, wopen, bresult, before, succeeded,
                 fileVars, queryVars, otherVars>>

\* Lines 115-125: the next section; one with no content is passed over.
NextSection ==
  /\ bpc = "sections"
  /\ IF si > Len(CurPart.sections)
     THEN bpc' = "parts" /\ pi' = pi + 1 /\ UNCHANGED <<si, ki, current_chunk>>
     ELSE IF CurSection.present
     THEN bpc' = "sentences" /\ ki' = 1 /\ current_chunk' = <<>>
          /\ UNCHANGED <<pi, si>>
     ELSE bpc' = "sections" /\ si' = si + 1 /\ UNCHANGED <<pi, ki, current_chunk>>
  /\ UNCHANGED <<run, content_data, ti, text_chunks,
                 embeddings, index, timestamp, wopen, bresult, before, succeeded,
                 fileVars, queryVars, otherVars>>

\* Lines 126-145: the loop body for one sentence.
NextSentence ==
  /\ bpc = "sentences"
  /\ ki <= Len(Sentences)
  /\ LET sentence == Sentences[ki] IN
       IF SplitNeeded(current_chunk, sentence)
       THEN /\ text_chunks' = text_chunks \o
                 EmitAtSplit(CurTitle, CurPart, CurSection, current_chunk)
            /\ current_chunk' = NewChunk(current_chunk, sentence)
       ELSE /\ current_chunk' = Extend(current_chunk, sentence)
            /\ UNCHANGED text_chunks
  /\ ki' = ki + 1
  /\ UNCHANGED <<bpc, run, content_data, ti, pi, si,
                 embeddings, index, timestamp, wopen, bresult, before, succeeded,
                 fileVars, queryVars, otherVars>>

\* Mutant of EndSection: the last chunk of the section is put at the head of
\* the list.
EndSectionPrepending ==
  /\ bpc = "sentences"
  /\ ki > Len(Sentences)
  /\ text_chunks' = EmitAtEnd(CurTitle, CurPart, CurSection, current_chunk)
                      \o text_chunks
  /\ bpc' = "sections"
  /\ si' = si + 1
  /\ UNCHANGED <<run, content_data, ti, pi, ki, current_chunk,
                 embeddings, index, timestamp, wopen, bresult, before, succeeded,
                 fileVars, queryVars, otherVars>>

\* Lines 147-157: the last chunk of the section.
EndSection ==
  /\ bpc = "sentences"
  /\ ki > Len(Sentences)
  /\ text_chunks' = text_chunks \o
       EmitAtEnd(CurTitle, CurPart, CurSection, current_chunk)
  /\ bpc' = "sections"
  /\ si' = si + 1
  /\ UNCHANGED <<run, content_data, ti, pi, ki, current_chunk,
                 embeddings, index, timestamp, wopen, bresult, before, succeeded,
                 fileVars, queryVars, otherVars>>

Extract ==
  \/ ExtractBegin
  \/ NextTitle
  \/ NextPart
  \/ NextSection
  \/ NextSentence
  \/ EndSection

(* -------------------------------- files -------------------------------- *)

\* The four artifact types of the output directory.  Each has one "latest"
\* file and one file per timestamp.
Kinds == {"text_chunks", "embeddings", "faiss_index", "metadata"}
Timestamps == 0..MaxRuns

\* A file: absent; open for writing and truncated, or left so by a write that
\* failed ("partial"); or holding what a write put there.  run names the run
\* that wrote it.
Absent == [st |-> "absent", run |-> 0, data |-> None]
Partial(r) == [st |-> "partial", run |-> r, data |-> None]
Full(r, d) == [st |-> "full", run |-> r, data |-> d]

\* INPUT_DIR: absent, or a directory with its collection_summary_ files as
\* os.listdir gives them, each with the timestamp of its name and the content
\* json.load reads from it.
NoDirectory == [exists |-> FALSE, summaries |-> <<>>]
Directory(summaries) == [exists |-> TRUE, summaries |-> summaries]
CollectionSummary(stamp, content) == [stamp |-> stamp, content |-> content]

\* os.path.join(OUTPUT_DIR, ...): a path is the latest file of a kind, or the
\* file of a kind and a timestamp.
LatestPath(kind) == [latest |-> TRUE, kind |-> kind, ts |-> 0]
StampedPath(kind, ts) == [latest |-> FALSE, kind |-> kind, ts |-> ts]

ReadFile(path) ==
  IF path.latest THEN latest[path.kind] ELSE stamped[path.kind][path.ts]

(* ------------------------------- inputs -------------------------------- *)

\* Sentences as sent_tokenize returns them: not empty, no whitespace at either
\* end.  ShortS: 8 characters.  MidS: 250 characters, with a run of two
\* whitespace characters inside.  LongS: 600 characters, longer than CHUNK_SIZE.
\* ManyS: 13 words of 20 characters, 272 characters.  WideS: one word of 300.
ShortS == <<W(1, 3), WS(1), W(2, 4)>>
MidS == <<W(3, 120), WS(2), W(4, 128)>>
LongS == <<W(5, 300), WS(1), W(6, 299)>>
ManyS == JoinSp([i \in 1..13 |-> W(10 + i, 20)])
WideS == <<W(7, 300)>>

Pool == {ShortS, MidS, LongS, ManyS, WideS}

SentenceLists == UNION {[1..n -> Pool] : n \in 0..MaxSent}

Section(num, title, sentences) ==
  [section |-> num, title |-> title, present |-> TRUE, sentences |-> sentences]
\* A section whose content is missing or "".
NoContentSection(num, title) ==
  [section |-> num, title |-> title, present |-> FALSE, sentences |-> <<>>]
\* sections_file: "ok" (the file exists, sections is what it holds), "none"
\* (the part's record has no sections_file) or "missing" (no such file).
Part(num, file, sections) ==
  [num |-> num, sections_file |-> file, sections |-> sections]
Title(num, name, parts) == [num |-> num, name |-> name, parts |-> parts]
Content(titles) == [results |-> titles]

\* One title, one part, one section.
OneSection(sentences) ==
  Content(<<Title("1", "General Provisions",
                  <<Part("1", "ok", <<Section("1.1", "Definitions", sentences)>>)>>)>>)

\* Two titles; parts without a readable sections file; a section with no
\* content between two sections that have some.
Mixed(a, b) ==
  Content(<<Title("1", "General Provisions",
                  <<Part("1", "ok", <<Section("1.1", "Definitions", a),
                                      NoContentSection("1.2", "Reserved"),
                                      Section("1.3", "Scope", b)>>),
                    Part("2", "none", <<>>)>>),
            Title("2", "Grants and Agreements",
                  <<Part("25", "missing", <<>>),
                    Part("170", "ok", <<Section("170.1", "Purpose", b)>>)>>)>>)

MixedLists == {<<>>, <<ShortS>>, <<MidS, WideS>>, <<ManyS, WideS, ShortS>>}

\* A corpus without its parts that have no readable sections file and without
\* its sections that have no content.
Pruned(content) ==
  IF content = None THEN None
  ELSE Content([t \in 1..Len(content.results) |->
         [content.results[t] EXCEPT !.parts =
            LET parts == SelectSeq(@, LAMBDA p : p.sections_file = "ok")
            IN [p \in 1..Len(parts) |->
                  [parts[p] EXCEPT !.sections = SelectSeq(@, LAMBDA x : x.present)]]]])

ChunkInputs ==
  {None, Content(<<>>)}
    \cup {OneSection(l) : l \in SentenceLists}
    \cup {Mixed(a, b) : a \in MixedLists, b \in MixedLists}
    \cup {Pruned(Mixed(a, b)) : a \in MixedLists, b \in MixedLists}

(* --------------------- the chunker on its own: SpecChunk ---------------- *)

\* An empty output directory; no timestamp taken yet.
InitFiles ==
  /\ input_dir = NoDirectory
  /\ now = 0
  /\ latest = [k \in Kinds |-> Absent]
  /\ stamped = [k \in Kinds |-> [t \in Timestamps |-> Absent]]

IdleQuery ==
  /\ qpc = "idle"
  /\ top_k = 0
  /\ q_metadata = None
  /\ q_chunks = None
  /\ q_index = None
  /\ q_indices = <<>>
  /\ q_distances = <<>>
  /\ q_results = None
  /\ q_scores = <<>>

\* The part numbers a structure can name.
PartNums == {1, 2}

\* hybrid_collector.collect_data has not been called.
IdleCollect ==
  /\ cpc = "idle"
  /\ c_titles = <<>>
  /\ c_ti = 1
  /\ c_parts = <<>>
  /\ c_pi = 1
  /\ part_results = <<>>
  /\ title_results = <<>>
  /\ sections_files = [f \in (1..MaxTitles) \X PartNums |-> "absent"]
  /\ summary = None
  /\ c_log = [failed_titles |-> {}, tried |-> {}, written |-> {}]

\* download_all_titles has not been called.
IdlePool ==
  /\ ppc = "idle"
  /\ title_urls = 0
  /\ future = <<>>
  /\ yielded = {}
  /\ results = <<>>
  /\ errors = <<>>
  /\ totals = None

\* create_vector_database and test_vector_search have not been called, in an
\* empty output directory.
IdlePipeline ==
  /\ bpc = "idle"
  /\ run = 0
  /\ content_data = None
  /\ ti = 1 /\ pi = 1 /\ si = 1 /\ ki = 1
  /\ current_chunk = <<>>
  /\ text_chunks = <<>>
  /\ embeddings = None
  /\ index = None
  /\ timestamp = 0
  /\ wopen = FALSE
  /\ bresult = None
  /\ succeeded = -1
  /\ before = [latest |-> [k \in Kinds |-> Absent],
               stamped |-> [k \in Kinds |-> [t \in Timestamps |-> Absent]],
               input_dir |-> NoDirectory]
  /\ InitFiles
  /\ IdleQuery

InitChunk ==
  /\ bpc = "extract"
  /\ run = 1
  /\ content_data \in ChunkInputs
  /\ ti = 1 /\ pi = 1 /\ si = 1 /\ ki = 1
  /\ current_chunk = <<>>
  /\ text_chunks = <<>>
  /\ embeddings = None
  /\ index = None
  /\ timestamp = 0
  /\ wopen = FALSE
  /\ bresult = None
  /\ succeeded = -1
  /\ before = [latest |-> [k \in Kinds |-> Absent],
                stamped |-> [k \in Kinds |-> [t \in Timestamps |-> Absent]],
                input_dir |-> NoDirectory]
  /\ InitFiles
  /\ IdleQuery
  /\ IdleCollect
  /\ IdlePool

SpecChunk == InitChunk /\ [][Extract]_vars

(* ----------------------- properties of the chunker --------------------- *)

\* extract_text_from_content has returned.
ExtractReturned == bpc = "check_chunks"

\* The sections the chunker splits: those of a part whose sections file is
\* read, with content.
ChunkedSections ==
  IF content_data = None THEN {}
  ELSE UNION { UNION { { [title |-> Results[t], part |-> Results[t].parts[p],
                          section |-> Results[t].parts[p].sections[s]] :
                         s \in { x \in 1..Len(Results[t].parts[p].sections) :
                                   /\ Results[t].parts[p].sections_file = "ok"
                                   /\ Results[t].parts[p].sections[x].present } } :
                       p \in 1..Len(Results[t].parts) } :
               t \in 1..Len(Results) }

\* The chunks of one section, in the order of text_chunks.
ChunksOf(sec) ==
  SelectSeq(text_chunks, LAMBDA c : /\ c.title_num = sec.title.num
                                    /\ c.part_num = sec.part.num
                                    /\ c.section_num = sec.section.section)

IsPrefix(p, s) == Len(p) <= Len(s) /\ SubSeq(s, 1, Len(p)) = p
IsSuffix(p, s) == Len(p) <= Len(s) /\ SubSeq(s, Len(s) - Len(p) + 1, Len(s)) = p
Contains(s, sub) ==
  \E i \in 1..(Len(s) - Len(sub) + 1) : SubSeq(s, i, i + Len(sub) - 1) = sub

\* text without its first m words and the whitespace around them.
RECURSIVE DropWords(_, _)
DropWords(text, m) ==
  IF text = <<>> THEN <<>>
  ELSE IF IsSpace(Head(text)) THEN DropWords(Tail(text), m)
  ELSE IF m = 0 THEN text
  ELSE DropWords(Tail(text), m - 1)

\* The texts of a list, one " " between two of them.
RECURSIVE JoinTexts(_)
JoinTexts(texts) ==
  IF texts = <<>> THEN <<>>
  ELSE IF Len(texts) = 1 THEN texts[1]
  ELSE texts[1] \o SP \o JoinTexts(Tail(texts))

\* The number of overlap words chunk i of cs was seeded with.
Seeded(cs, i) ==
  IF i = 1 THEN 0 ELSE Min(Len(SplitWords(cs[i - 1].text)), CHUNK_OVERLAP \div 10)

\* Chunk i of cs without its seeded overlap words.
OwnText(cs, i) == DropWords(cs[i].text, Seeded(cs, i))

\* C1 (as claimed): every chunk has at most CHUNK_SIZE characters, unless it
\* contains a sentence that is itself longer than CHUNK_SIZE.
C1_ChunkLengthBound ==
  ExtractReturned =>
    \A sec \in ChunkedSections :
      LET cs == ChunksOf(sec) IN
      \A i \in 1..Len(cs) :
        \/ StrLen(cs[i].text) <= CHUNK_SIZE
        \/ \E k \in 1..Len(sec.section.sentences) :
              /\ StrLen(sec.section.sentences[k]) > CHUNK_SIZE
              /\ Contains(cs[i].text, sec.section.sentences[k])

\* C4: the chunks of a section, each without its seeded overlap words, put
\* together in order are the section's sentences, each once and in order.
C4_Coverage ==
  ExtractReturned =>
    \A sec \in ChunkedSections :
      LET cs == ChunksOf(sec) IN
      JoinTexts([i \in 1..Len(cs) |-> OwnText(cs, i)])
        = JoinTexts(sec.section.sentences)

\* A section of three or more sentences was split into two or more chunks.
C4_Witness ==
  /\ ExtractReturned
  /\ \E sec \in ChunkedSections :
       /\ Len(sec.section.sentences) >= 3
       /\ Len(ChunksOf(sec)) >= 2
       /\ Seeded(ChunksOf(sec), 2) > 0

\* C5: chunk i+1 of a section starts with the last min(words of chunk i,
\* CHUNK_OVERLAP // 10) words of chunk i, one space between two of them, then
\* a space and the sentence that did not fit after chunk i.
C5_Overlap ==
  ExtractReturned =>
    \A sec \in ChunkedSections :
      LET cs == ChunksOf(sec)
          ss == sec.section.sentences
      IN
      \A i \in 1..(Len(cs) - 1) :
        LET wi == SplitWords(cs[i].text)
            m == Min(Len(wi), CHUNK_OVERLAP \div 10)
            lead == JoinSp(SubSeq(wi, Len(wi) - m + 1, Len(wi)))
        IN
        \E j \in 2..Len(ss) :
          /\ IsSuffix(ss[j - 1], cs[i].text)
          /\ StrLen(cs[i].text) + 1 + StrLen(ss[j]) > CHUNK_SIZE
          /\ IsPrefix(lead \o SP \o ss[j], cs[i + 1].text)

\* Two consecutive chunks with all 12 overlap words, and two with fewer words
\* than that in the first.
C5_Witness ==
  /\ ExtractReturned
  /\ \E sec \in ChunkedSections :
       \E i \in 1..(Len(ChunksOf(sec)) - 1) :
         Len(SplitWords(ChunksOf(sec)[i].text)) > CHUNK_OVERLAP \div 10
  /\ \E sec \in ChunkedSections :
       \E i \in 1..(Len(ChunksOf(sec)) - 1) :
         Len(SplitWords(ChunksOf(sec)[i].text)) < CHUNK_OVERLAP \div 10

\* The cuts of n sentences into c runs: cut[i] is the last sentence of run i.
Cuts(n, c) ==
  { cut \in [1..c -> 1..n] :
      /\ c > 0 => cut[c] = n
      /\ \A i \in 1..(c - 1) : cut[i] < cut[i + 1] }

\* C6: the sentences of a section are cut into runs, one run per chunk, and
\* each chunk is its seeded overlap words followed by the whole sentences of
\* its run: no sentence is truncated or continued in another chunk.
C6_WholeSentences ==
  ExtractReturned =>
    \A sec \in ChunkedSections :
      LET cs == ChunksOf(sec)
          ss == sec.section.sentences
      IN
      /\ (Len(cs) = 0) = (Len(ss) = 0)
      /\ \E cut \in Cuts(Len(ss), Len(cs)) :
           \A i \in 1..Len(cs) :
             OwnText(cs, i)
               = JoinTexts(SubSeq(ss, IF i = 1 THEN 1 ELSE cut[i - 1] + 1, cut[i]))

\* A sentence longer than CHUNK_SIZE in a chunk that is not the section's first.
C6_Witness ==
  /\ ExtractReturned
  /\ \E sec \in ChunkedSections :
       \E i \in 2..Len(ChunksOf(sec)) :
         \E k \in 1..Len(sec.section.sentences) :
           /\ StrLen(sec.section.sentences[k]) > CHUNK_SIZE
           /\ Contains(ChunksOf(sec)[i].text, sec.section.sentences[k])

(* ------------------- the chunker as a function ------------------------- *)

RECURSIVE Flatten(_)
Flatten(lists) == IF lists = <<>> THEN <<>> ELSE Head(lists) \o Flatten(Tail(lists))

\* The loop of lines 126-157 over the sentences of one section from sentence k
\* on, current_chunk being cur: the chunks it appends.
RECURSIVE SectionChunks(_, _, _, _, _)
SectionChunks(title, part, section, k, cur) ==
  IF k > Len(section.sentences) THEN EmitAtEnd(title, part, section, cur)
  ELSE IF SplitNeeded(cur, section.sentences[k])
  THEN EmitAtSplit(title, part, section, cur)
         \o SectionChunks(title, part, section, k + 1,
                          NewChunk(cur, section.sentences[k]))
  ELSE SectionChunks(title, part, section, k + 1, Extend(cur, section.sentences[k]))

\* The chunks of the sections of one part (lines 109-157).
PartChunks(title, part) ==
  IF part.sections_file # "ok" THEN <<>>
  ELSE Flatten([x \in 1..Len(part.sections) |->
                  IF part.sections[x].present
                  THEN SectionChunks(title, part, part.sections[x], 1, <<>>)
                  ELSE <<>>])

\* What extract_text_from_content returns (lines 90-160).
ExtractText(content) ==
  IF content = None THEN <<>>
  ELSE Flatten([t \in 1..Len(content.results) |->
                  Flatten([p \in 1..Len(content.results[t].parts) |->
                             PartChunks(content.results[t],
                                        content.results[t].parts[p])])])

\* The chunker's steps compute that function: what a call returns is
\* ExtractText of its argument.
ChunkerIsFunction == ExtractReturned => text_chunks = ExtractText(content_data)

\* The parts and the sections the chunker passes over.
SkippedParts ==
  IF content_data = None THEN {}
  ELSE UNION { { [title |-> Results[t], part |-> Results[t].parts[p]] :
                   p \in { x \in 1..Len(Results[t].parts) :
                             Results[t].parts[x].sections_file # "ok" } } :
               t \in 1..Len(Results) }
SkippedSections ==
  IF content_data = None THEN {}
  ELSE UNION { UNION { { [title |-> Results[t], part |-> Results[t].parts[p],
                          section |-> Results[t].parts[p].sections[x]] :
                         x \in { y \in 1..Len(Results[t].parts[p].sections) :
                                   ~Results[t].parts[p].sections[y].present } } :
                       p \in 1..Len(Results[t].parts) } :
               t \in 1..Len(Results) }

\* C15: a part with no sections_file or with one that does not exist, and a
\* section with no content, give no chunk, and the chunk list is the one the
\* chunker returns for the corpus without them.
C15_PartialDataSkipped ==
  ExtractReturned =>
    /\ text_chunks = ExtractText(Pruned(content_data))
    /\ \A i \in 1..Len(text_chunks) :
         /\ \A sp \in SkippedParts :
              ~(text_chunks[i].title_num = sp.title.num
                /\ text_chunks[i].part_num = sp.part.num)
         /\ \A ss \in SkippedSections :
              ~(text_chunks[i].title_num = ss.title.num
                /\ text_chunks[i].part_num = ss.part.num
                /\ text_chunks[i].section_num = ss.section.section)

\* The chunker returned chunks for a corpus with two parts and a section it
\* passed over, among them chunks of a part that comes after such a part.
C15_Witness ==
  /\ ExtractReturned
  /\ Cardinality(SkippedParts) = 2
  /\ Cardinality(SkippedSections) = 1
  /\ \E i \in 1..Len(text_chunks) : text_chunks[i].part_num = "170"
  /\ \E i \in 1..Len(text_chunks) : text_chunks[i].section_num = "1.3"

\* The words of a text, and those of the sentences of a section.
WordsOf(text) == {text[i] : i \in {j \in 1..Len(text) : ~IsSpace(text[j])}}
SectionWords(section) ==
  UNION {WordsOf(section.sentences[k]) : k \in 1..Len(section.sentences)}

\* chunk carries the title, part and section fields of sec.
FieldsOf(chunk, sec) ==
  /\ chunk.title_num = sec.title.num
  /\ chunk.title_name = sec.title.name
  /\ chunk.part_num = sec.part.num
  /\ chunk.section_num = sec.section.section
  /\ chunk.section_title = sec.section.title

\* C16: every chunk carries the fields of exactly one section with content,
\* its source is "Title T, Part P, Section S" of that section, and every word
\* of its text is a word of that section.
C16_OneSection ==
  ExtractReturned =>
    \A i \in 1..Len(text_chunks) :
      LET chunk == text_chunks[i]
          own == {sec \in ChunkedSections : FieldsOf(chunk, sec)}
      IN /\ Cardinality(own) = 1
         /\ \A sec \in own :
              /\ chunk.source = <<"Title ", sec.title.num, ", Part ", sec.part.num,
                                  ", Section ", sec.section.section>>
              /\ WordsOf(chunk.text) \subseteq SectionWords(sec.section)

\* A section split into chunks comes after a section that has words it has
\* not, in the same part.
C16_Witness ==
  /\ ExtractReturned
  /\ \E a, b \in ChunkedSections :
       /\ a.section.section = "1.1" /\ b.section.section = "1.3"
       /\ ChunksOf(a) # <<>>
       /\ Len(ChunksOf(b)) >= 2
       /\ ~(SectionWords(a.section) \subseteq SectionWords(b.section))

\* The sections with content of the parts whose sections file is read, in
\* the order the loops of lines 102, 107 and 115 visit them.
SectionOrder(content) ==
  IF content = None THEN <<>>
  ELSE Flatten([t \in 1..Len(content.results) |->
         Flatten([p \in 1..Len(content.results[t].parts) |->
           LET title == content.results[t]
               part == title.parts[p]
               secs == SelectSeq(part.sections, LAMBDA x : x.present)
           IN IF part.sections_file # "ok" THEN <<>>
              ELSE [x \in 1..Len(secs) |->
                      [title |-> title, part |-> part, section |-> secs[x]]]])])

\* C17: the chunk list is the chunks of the first section visited, then those
\* of the second, and so on, none elsewhere; and within a section each chunk
\* after the first starts with the last words of the chunk before it.
C17_ListOrder ==
  ExtractReturned =>
    LET order == SectionOrder(content_data) IN
    /\ text_chunks = Flatten([k \in 1..Len(order) |-> ChunksOf(order[k])])
    /\ \A k \in 1..Len(order) :
         LET cs == ChunksOf(order[k]) IN
         \A i \in 1..(Len(cs) - 1) :
           LET words == SplitWords(cs[i].text) IN
           IsPrefix(JoinSp(LastK(words, Min(Len(words), CHUNK_OVERLAP \div 10))),
                    cs[i + 1].text)

\* Three sections of two titles gave chunks, the first of them two or more.
C17_Witness ==
  /\ ExtractReturned
  /\ Len(SectionOrder(content_data)) = 3
  /\ SectionOrder(content_data)[1].title # SectionOrder(content_data)[3].title
  /\ Len(ChunksOf(SectionOrder(content_data)[1])) >= 2
  /\ \A k \in 1..3 : ChunksOf(SectionOrder(content_data)[k]) # <<>>

\* The step that ends a section: the loop over its sentences is over.
EndOfSection == bpc = "sentences" /\ bpc' = "sections"

\* C18: no chunk of the list has a text without a word; and at the end of a
\* section the buffer is appended, stripped, as one more chunk if it has a
\* word, and nothing is appended if it has none.
C18_NoEmptyChunk ==
  /\ [](\A i \in 1..Len(text_chunks) : WordsOf(text_chunks[i].text) # {})
  /\ [][EndOfSection =>
          IF WordsOf(current_chunk) # {}
          THEN /\ Len(text_chunks') = Len(text_chunks) + 1
               /\ SubSeq(text_chunks', 1, Len(text_chunks)) = text_chunks
               /\ text_chunks'[Len(text_chunks')].text = Strip(current_chunk)
          ELSE text_chunks' = text_chunks]_vars

\* The first sentence of a section is longer than CHUNK_SIZE: the split was
\* taken with an empty buffer, and no chunk was appended.
C18_Witness ==
  /\ bpc = "sentences"
  /\ ki = 2
  /\ StrLen(Sentences[1]) > CHUNK_SIZE
  /\ text_chunks = <<>>
  /\ current_chunk # <<>>

\* The sum of the lengths of the sentences of a list.
RECURSIVE TotalLen(_)
TotalLen(sentences) ==
  IF sentences = <<>> THEN 0 ELSE StrLen(Head(sentences)) + TotalLen(Tail(sentences))

\* The corpus is one section with content: one title, one part, one section.
OneSectionCorpus ==
  /\ content_data # None
  /\ Len(SectionOrder(content_data)) = 1
  /\ Len(Results) = 1
  /\ Len(Results[1].parts) = 1
  /\ Len(Results[1].parts[1].sections) = 1

\* C19: for a corpus of one section of two or more sentences whose lengths add
\* up to more than CHUNK_SIZE, the chunker returns two or more chunks.
C19_SplitsWhenNeeded ==
  (/\ ExtractReturned
   /\ OneSectionCorpus
   /\ Len(SectionOrder(content_data)[1].section.sentences) >= 2
   /\ TotalLen(SectionOrder(content_data)[1].section.sentences) > CHUNK_SIZE)
    => Len(text_chunks) >= 2

\* Two sentences, none longer than CHUNK_SIZE, 522 characters together: the
\* chunker returned two chunks.
C19_Witness ==
  /\ ExtractReturned
  /\ OneSectionCorpus
  /\ SectionOrder(content_data)[1].section.sentences = <<MidS, ManyS>>
  /\ TotalLen(<<MidS, ManyS>>) > CHUNK_SIZE
  /\ Len(text_chunks) = 2

(* ------------------------ create_vector_database ------------------------ *)

\* What load_data can find as the latest collection summary: nothing; a part
\* whose only section has no content; a section that makes one chunk; a
\* section that makes three.
NoContentCorpus ==
  Content(<<Title("1", "General Provisions",
                  <<Part("1", "ok", <<NoContentSection("1.1", "Reserved")>>)>>)>>)

PipelineContents ==
  {None, NoContentCorpus, OneSection(<<ShortS>>), OneSection(<<WideS, WideS, WideS>>)}

\* Mutant of FileName: the timestamp is written without leading zeros.
FileNameUnpadded(stamp) ==
  IF stamp < 10 THEN <<stamp>> ELSE <<stamp \div 10, stamp % 10>>

\* The name of the collection summary with a timestamp, as collect_data forms
\* it (hybrid_collector.py, lines 316 and 380): between "collection_summary_"
\* and ".json", which all the names share, the digits that strftime gives,
\* each field at its full width.  The model's timestamps have two digits.
FileName(stamp) == <<stamp \div 10, stamp % 10>>

\* The order of Python's strings, on the digits of two names.
RECURSIVE NameLess(_, _)
NameLess(a, b) ==
  IF a = <<>> THEN b # <<>>
  ELSE IF b = <<>> THEN FALSE
  ELSE IF Head(a) # Head(b) THEN Head(a) < Head(b)
  ELSE NameLess(Tail(a), Tail(b))

\* sorted(collection_files)[-1] (line 80): the file with the greatest name.
LatestCollection(summaries) ==
  CHOOSE f \in {summaries[i] : i \in 1..Len(summaries)} :
    \A i \in 1..Len(summaries) :
      ~NameLess(FileName(f.stamp), FileName(summaries[i].stamp))

\* data["content"] as load_data returns it (lines 52-56 and 76-88): None with no
\* collection summary, else the content of the latest one.
LoadContent(dir) ==
  IF dir.summaries = <<>> THEN None ELSE LatestCollection(dir.summaries).content

\* The input directories a run can find.
InputDirs ==
  {NoDirectory,
   Directory(<<>>),
   Directory(<<CollectionSummary(1, NoContentCorpus)>>),
   Directory(<<CollectionSummary(1, OneSection(<<ShortS>>))>>),
   Directory(<<CollectionSummary(2, OneSection(<<WideS, WideS, WideS>>)),
               CollectionSummary(1, OneSection(<<ShortS>>))>>)}

\* model.encode: one vector per text, a function of the text alone.
Encode(text) == <<StrLen(text), Len(SplitWords(text))>>

\* create_embeddings (lines 162-180): None for no chunks, else one row per
\* chunk, in the order of the chunks.
CreateEmbeddings(chunks) ==
  IF chunks = <<>> THEN None
  ELSE [rows |-> [i \in 1..Len(chunks) |-> Encode(chunks[i].text)]]

\* Mutant of IndexFlatL2: the index the rows are added to is not a new one, it
\* holds a vector already.
IndexFlatL2Used(d) == [d |-> d, vectors |-> <<[i \in 1..d |-> 0]>>]

\* faiss.IndexFlatL2(d) and index.add(rows).
IndexFlatL2(d) == [d |-> d, vectors |-> <<>>]
IndexAdd(ix, rows) == [ix EXCEPT !.vectors = @ \o rows]

\* create_faiss_index (lines 182-199).
CreateFaissIndex(emb) ==
  IF emb = None THEN None
  ELSE IndexAdd(IndexFlatL2(Len(emb.rows[1])), emb.rows)

\* The metadata dict (lines 264-279) of a run with timestamp ts, chunk list
\* chunks and embedding matrix emb.
MetadataOf(ts, chunks, emb) ==
  [timestamp |-> ts,
   model_name |-> MODEL_NAME,
   chunk_size |-> CHUNK_SIZE,
   chunk_overlap |-> CHUNK_OVERLAP,
   num_chunks |-> Len(chunks),
   embedding_dim |-> Len(emb.rows[1]),
   files |-> [text_chunks |-> StampedPath("text_chunks", ts),
              embeddings |-> StampedPath("embeddings", ts),
              faiss_index |-> StampedPath("faiss_index", ts),
              latest_text_chunks |-> LatestPath("text_chunks"),
              latest_embeddings |-> LatestPath("embeddings"),
              latest_faiss_index |-> LatestPath("faiss_index")]]

Metadata == MetadataOf(timestamp, text_chunks, embeddings)

\* The locals of create_vector_database are gone when it returns or raises.
LocalsGone ==
  /\ content_data' = None
  /\ LoopLocalsGone
  /\ text_chunks' = <<>>
  /\ embeddings' = None
  /\ index' = None
  /\ timestamp' = 0

\* Lines 203-207: a run starts (the output directory is made, the tokenizer
\* data fetched; neither touches an artifact).
StartBuild ==
  /\ bpc \in {"idle", "done", "aborted"}
  /\ run < MaxRuns
  /\ run' = run + 1
  /\ bpc' = "load"
  /\ bresult' = None
  /\ before' = [latest |-> latest, stamped |-> stamped, input_dir |-> input_dir]
  /\ input_dir' \in InputDirs
  /\ UNCHANGED <<content_data, loopVars, text_chunks, embeddings, index,
                 timestamp, wopen, succeeded, now, latest, stamped, queryVars, otherVars>>

\* Line 210: load_data returns the content of the latest collection summary.
\* os.listdir(INPUT_DIR) (line 77) raises when there is no such directory.
Load ==
  /\ bpc = "load"
  /\ input_dir.exists
  /\ content_data' = LoadContent(input_dir)
  /\ bpc' = "extract"
  /\ UNCHANGED <<run, loopVars, text_chunks, embeddings, index, timestamp, wopen,
                 bresult, before, succeeded, fileVars, queryVars, otherVars>>

\* Mutant of CheckChunks: no chunks is an error that is raised, not returned.
CheckChunksRaising ==
  /\ bpc = "check_chunks"
  /\ IF text_chunks = <<>>
     THEN bpc' = "aborted" /\ LocalsGone
     ELSE bpc' = "embed"
          /\ UNCHANGED <<content_data, loopVars, text_chunks, embeddings,
                         index, timestamp>>
  /\ UNCHANGED <<run, wopen, bresult, before, succeeded, fileVars, queryVars, otherVars>>

\* Mutant of CheckChunks: with no chunks the run loads the corpus again.
CheckChunksRetrying ==
  /\ bpc = "check_chunks"
  /\ IF text_chunks = <<>>
     THEN bpc' = "load" /\ content_data' = None
          /\ UNCHANGED <<bresult, loopVars, text_chunks, embeddings, index, timestamp>>
     ELSE bpc' = "embed"
          /\ UNCHANGED <<bresult, content_data, loopVars, text_chunks, embeddings,
                         index, timestamp>>
  /\ UNCHANGED <<run, wopen, before, succeeded, fileVars, queryVars, otherVars>>

\* Lines 215-217: no chunks, nothing to build.
CheckChunks ==
  /\ bpc = "check_chunks"
  /\ IF text_chunks = <<>>
     THEN bpc' = "done" /\ bresult' = None /\ LocalsGone
     ELSE bpc' = "embed"
          /\ UNCHANGED <<bresult, content_data, loopVars, text_chunks, embeddings,
                         index, timestamp>>
  /\ UNCHANGED <<run, wopen, before, succeeded, fileVars, queryVars, otherVars>>

\* Lines 220-224.
Embed ==
  /\ bpc = "embed"
  /\ IF CreateEmbeddings(text_chunks) = None
     THEN bpc' = "done" /\ bresult' = None /\ LocalsGone
     ELSE bpc' = "index"
          /\ embeddings' = CreateEmbeddings(text_chunks)
          /\ UNCHANGED <<bresult, content_data, loopVars, text_chunks, index, timestamp>>
  /\ UNCHANGED <<run, wopen, before, succeeded, fileVars, queryVars, otherVars>>

\* Mutant of BuildIndex: with the index built, the run embeds the chunks again.
BuildIndexThenEmbed ==
  /\ bpc = "index"
  /\ IF CreateFaissIndex(embeddings) = None
     THEN bpc' = "done" /\ bresult' = None /\ LocalsGone
     ELSE bpc' = "embed"
          /\ index' = CreateFaissIndex(embeddings)
          /\ UNCHANGED <<bresult, content_data, loopVars, text_chunks, embeddings,
                         timestamp>>
  /\ UNCHANGED <<run, wopen, before, succeeded, fileVars, queryVars, otherVars>>

\* Lines 227-231.
BuildIndex ==
  /\ bpc = "index"
  /\ IF CreateFaissIndex(embeddings) = None
     THEN bpc' = "done" /\ bresult' = None /\ LocalsGone
     ELSE bpc' = "stamp"
          /\ index' = CreateFaissIndex(embeddings)
          /\ UNCHANGED <<bresult, content_data, loopVars, text_chunks, embeddings,
                         timestamp>>
  /\ UNCHANGED <<run, wopen, before, succeeded, fileVars, queryVars, otherVars>>

\* Line 234: datetime.now() to the second.  The clock does not go back; a run
\* can start within the second the previous one took its timestamp in.
Stamp ==
  /\ bpc = "stamp"
  /\ \E t \in {now, now + 1} \cap Timestamps :
       /\ now' = t
       /\ timestamp' = t
  /\ bpc' = "save_chunks"
  /\ UNCHANGED <<run, content_data, loopVars, text_chunks, embeddings, index,
                 wopen, bresult, before, succeeded, input_dir, latest, stamped,
                 queryVars, otherVars>>

\* One write of a file, in two steps: open(path, 'w') creates or truncates the
\* file; the dump fills it and the file is closed.
WriteFile(pc, path, data, next) ==
  /\ bpc = pc
  /\ \/ /\ ~wopen
        /\ wopen' = TRUE
        /\ IF path.latest
           THEN /\ latest' = [latest EXCEPT ![path.kind] = Partial(run)]
                /\ UNCHANGED stamped
           ELSE /\ stamped' = [stamped EXCEPT ![path.kind][path.ts] = Partial(run)]
                /\ UNCHANGED latest
        /\ UNCHANGED bpc
     \/ /\ wopen
        /\ wopen' = FALSE
        /\ IF path.latest
           THEN /\ latest' = [latest EXCEPT ![path.kind] = Full(run, data)]
                /\ UNCHANGED stamped
           ELSE /\ stamped' = [stamped EXCEPT ![path.kind][path.ts] = Full(run, data)]
                /\ UNCHANGED latest
        /\ bpc' = next
  /\ UNCHANGED <<run, before, input_dir, now, queryVars, otherVars>>

\* Lines 237-239.
SaveChunks ==
  /\ WriteFile("save_chunks", StampedPath("text_chunks", timestamp),
               [chunks |-> text_chunks], "save_embeddings")
  /\ UNCHANGED <<bresult, content_data, loopVars, text_chunks, embeddings, index,
                 timestamp, succeeded>>

\* Lines 243-244.
SaveEmbeddings ==
  /\ WriteFile("save_embeddings", StampedPath("embeddings", timestamp),
               embeddings, "save_index")
  /\ UNCHANGED <<bresult, content_data, loopVars, text_chunks, embeddings, index,
                 timestamp, succeeded>>

\* Lines 248-249.
SaveIndex ==
  /\ WriteFile("save_index", StampedPath("faiss_index", timestamp),
               index, "latest_chunks")
  /\ UNCHANGED <<bresult, content_data, loopVars, text_chunks, embeddings, index,
                 timestamp, succeeded>>

\* Mutant of LatestChunks: a latest chunk list that exists is kept.
LatestChunksKept ==
  /\ IF latest["text_chunks"].st # "full"
     THEN WriteFile("latest_chunks", LatestPath("text_chunks"),
                    [chunks |-> text_chunks], "latest_embeddings")
     ELSE /\ bpc = "latest_chunks"
          /\ bpc' = "latest_embeddings"
          /\ UNCHANGED <<run, wopen, before, fileVars, queryVars, otherVars>>
  /\ UNCHANGED <<bresult, content_data, loopVars, text_chunks, embeddings, index,
                 timestamp, succeeded>>

\* Lines 253-255.
LatestChunks ==
  /\ WriteFile("latest_chunks", LatestPath("text_chunks"),
               [chunks |-> text_chunks], "latest_embeddings")
  /\ UNCHANGED <<bresult, content_data, loopVars, text_chunks, embeddings, index,
                 timestamp, succeeded>>

\* Mutant of LatestEmbeddings: the run goes on without the latest embeddings.
LatestEmbeddingsSkipped ==
  /\ bpc = "latest_embeddings"
  /\ ~wopen
  /\ bpc' = "latest_index"
  /\ UNCHANGED <<run, wopen, before, fileVars, queryVars, otherVars>>
  /\ UNCHANGED <<bresult, content_data, loopVars, text_chunks, embeddings, index,
                 timestamp, succeeded>>

\* Lines 257-258.
LatestEmbeddings ==
  /\ WriteFile("latest_embeddings", LatestPath("embeddings"),
               embeddings, "latest_index")
  /\ UNCHANGED <<bresult, content_data, loopVars, text_chunks, embeddings, index,
                 timestamp, succeeded>>

\* Mutant of LatestIndex: the latest index is left as it was.
LatestIndexSkipped ==
  /\ bpc = "latest_index"
  /\ ~wopen
  /\ bpc' = "save_metadata"
  /\ UNCHANGED <<run, wopen, before, fileVars, queryVars, otherVars>>
  /\ UNCHANGED <<bresult, content_data, loopVars, text_chunks, embeddings, index,
                 timestamp, succeeded>>

\* Lines 260-261.
LatestIndex ==
  /\ WriteFile("latest_index", LatestPath("faiss_index"),
               index, "save_metadata")
  /\ UNCHANGED <<bresult, content_data, loopVars, text_chunks, embeddings, index,
                 timestamp, succeeded>>

\* Lines 281-283.
SaveMetadata ==
  /\ WriteFile("save_metadata", StampedPath("metadata", timestamp),
               Metadata, "latest_metadata")
  /\ UNCHANGED <<bresult, content_data, loopVars, text_chunks, embeddings, index,
                 timestamp, succeeded>>

\* Lines 286-292: the last write, and the run returns the metadata.
LatestMetadata ==
  /\ WriteFile("latest_metadata", LatestPath("metadata"), Metadata, "done")
  /\ IF wopen
     THEN bresult' = Metadata /\ succeeded' = run /\ LocalsGone
     ELSE UNCHANGED <<bresult, content_data, loopVars, text_chunks, embeddings,
                      index, timestamp, succeeded>>

\* The positions at which a call out of the program can raise: reading the
\* corpus (load_data, a sections file), loading or running the model, filling
\* the index, opening a file for writing, writing it.  In load_data,
\* os.listdir raises when INPUT_DIR does not exist, and reading the collection
\* summary can fail when there is one.
CanRaise ==
  \/ bpc = "load" /\ (~input_dir.exists \/ input_dir.summaries # <<>>)
  \/ bpc \in {"embed", "index"}
  \/ bpc = "parts" /\ pi <= Len(CurTitle.parts) /\ CurPart.sections_file = "ok"
  \/ bpc \in {"save_chunks", "save_embeddings", "save_index", "latest_chunks",
              "latest_embeddings", "latest_index", "save_metadata", "latest_metadata"}

\* An exception leaves create_vector_database: nothing catches it, the run is
\* over.  A file that was open stays as the failed write left it.
BuildRaise ==
  /\ CanRaise
  /\ bpc' = "aborted"
  /\ wopen' = FALSE
  /\ bresult' = None
  /\ LocalsGone
  /\ UNCHANGED <<run, before, succeeded, fileVars, queryVars, otherVars>>

Build ==
  \/ StartBuild
  \/ Load
  \/ Extract
  \/ CheckChunks
  \/ Embed
  \/ BuildIndex
  \/ Stamp
  \/ SaveChunks
  \/ SaveEmbeddings
  \/ SaveIndex
  \/ LatestChunks
  \/ LatestEmbeddings
  \/ LatestIndex
  \/ SaveMetadata
  \/ LatestMetadata
  \/ BuildRaise

(* --------------------------- test_vector_search ------------------------- *)

\* index.search(query_embedding, top_k): top_k row numbers, nearest first.  The
\* rows are numbered from 0; an index of fewer than top_k vectors fills the
\* end of the answer with -1.  Which rows are nearest depends on the query:
\* any order of distinct rows is an answer.
SearchAnswers(ix, k) ==
  LET ntotal == Len(ix.vectors)
      found == Min(k, ntotal)
  IN { a \in [1..k -> (0..(ntotal - 1)) \cup {-1}] :
         /\ \A i \in 1..found : a[i] # -1
         /\ \A i \in (found + 1)..k : a[i] = -1
         /\ \A i, j \in 1..found : i # j => a[i] # a[j] }

\* The squared L2 distances a search can give to rows it found, and the one it
\* gives to a row it did not find (the largest float32, beyond them all).
Distances == {0, 1}
NotFoundDistance == 1000

\* index.search(query_embedding, top_k): the distances of the answer, one per
\* position, smallest first; those of the positions filled with -1 come last.
SearchDistances(ix, k) ==
  LET found == Min(k, Len(ix.vectors))
  IN { d \in [1..k -> Distances \cup {NotFoundDistance}] :
         /\ \A i \in 1..found : d[i] \in Distances
         /\ \A i \in (found + 1)..k : d[i] = NotFoundDistance
         /\ \A i \in 1..(k - 1) : d[i] <= d[i + 1] }

\* Mutant of Score: the distance itself is reported as the score.
ScoreIsDistance(distance) == [num |-> distance, den |-> 1]

\* float(1.0 / (1.0 + distance)) (line 331), as a fraction.
Score(distance) == [num |-> 1, den |-> 1 + distance]

\* Mutant of RowKept: the bound check lets the length itself through.
RowKeptInclusive(idx, n) == idx <= n

\* idx < len(text_chunks) (line 328)
RowKept(idx, n) == idx < n

\* list[idx] raises IndexError outside -len .. len-1.
IndexError(list, idx) == idx >= Len(list) \/ idx < -Len(list)

\* list[idx]: a negative idx counts from the end.
PyIndex(list, idx) ==
  IF idx >= 0 THEN list[idx + 1] ELSE list[Len(list) + idx + 1]

\* The dict appended to results (lines 330-339), without its score.
ResultEntry(chunk) ==
  [source |-> chunk.source, title_num |-> chunk.title_num,
   title_name |-> chunk.title_name, part_num |-> chunk.part_num,
   section_num |-> chunk.section_num, section_title |-> chunk.section_title,
   text |-> chunk.text]

\* The loop of lines 326-339 over the rows of the answer from position i on.
RECURSIVE CollectResults(_, _, _)
CollectResults(chunks, indices, i) ==
  IF i > Len(indices) THEN <<>>
  ELSE IF RowKept(indices[i], Len(chunks))
  THEN <<ResultEntry(PyIndex(chunks, indices[i]))>>
         \o CollectResults(chunks, indices, i + 1)
  ELSE CollectResults(chunks, indices, i + 1)

\* The "score" of the dicts that loop appends, in the order it appends them.
RECURSIVE CollectScores(_, _, _, _)
CollectScores(chunks, indices, distances, i) ==
  IF i > Len(indices) THEN <<>>
  ELSE IF RowKept(indices[i], Len(chunks))
  THEN <<Score(distances[i])>> \o CollectScores(chunks, indices, distances, i + 1)
  ELSE CollectScores(chunks, indices, distances, i + 1)

\* The loop raises at the first kept row that is no index of the list.
CollectRaises(chunks, indices) ==
  \E i \in 1..Len(indices) :
    RowKept(indices[i], Len(chunks)) /\ IndexError(chunks, indices[i])

\* The locals of test_vector_search are gone when it returns or raises.
QueryLocalsGone ==
  /\ top_k' = 0
  /\ q_metadata' = None
  /\ q_chunks' = None
  /\ q_index' = None
  /\ q_indices' = <<>>
  /\ q_distances' = <<>>

\* Mutant of QueryBegin: the call goes on to read the metadata without looking
\* whether the file exists.
QueryBeginUnchecked ==
  /\ qpc \in {"idle", "done", "raised"}
  /\ q_results' = None
  /\ q_scores' = <<>>
  /\ qpc' = "read_metadata"
  /\ UNCHANGED <<top_k, q_metadata, q_chunks, q_index, q_indices, q_distances,
                 buildVars, fileVars, otherVars>>

\* Lines 297-300: a call starts; without latest_metadata.json it logs an error
\* and returns None.
QueryBegin ==
  /\ qpc \in {"idle", "done", "raised"}
  /\ q_results' = None
  /\ q_scores' = <<>>
  /\ qpc' = IF latest["metadata"].st = "absent" THEN "done" ELSE "read_metadata"
  /\ UNCHANGED <<top_k, q_metadata, q_chunks, q_index, q_indices, q_distances,
                 buildVars, fileVars, otherVars>>

\* Lines 302-308: the metadata is read (and the model it names loaded).  A file
\* is read whole: one that is cut short raises.
QueryReadMetadata ==
  /\ qpc = "read_metadata"
  /\ IF latest["metadata"].st = "full"
     THEN /\ qpc' = "read_chunks"
          /\ q_metadata' = latest["metadata"]
          /\ UNCHANGED <<top_k, q_chunks, q_index, q_indices, q_distances>>
     ELSE qpc' = "raised" /\ QueryLocalsGone
  /\ UNCHANGED <<q_results, q_scores, buildVars, fileVars, otherVars>>

\* Lines 311-313.
QueryReadChunks ==
  /\ qpc = "read_chunks"
  /\ IF ReadFile(q_metadata.data.files.latest_text_chunks).st = "full"
     THEN /\ qpc' = "read_index"
          /\ q_chunks' = ReadFile(q_metadata.data.files.latest_text_chunks)
          /\ UNCHANGED <<top_k, q_metadata, q_index, q_indices, q_distances>>
     ELSE qpc' = "raised" /\ QueryLocalsGone
  /\ UNCHANGED <<q_results, q_scores, buildVars, fileVars, otherVars>>

\* Mutant of QueryReadIndex: the index is read from the file of the first
\* timestamp, not from the path the metadata names.
QueryReadIndexOfFirst ==
  /\ qpc = "read_index"
  /\ IF ReadFile(StampedPath("faiss_index", 0)).st = "full"
     THEN /\ qpc' = "search"
          /\ q_index' = ReadFile(StampedPath("faiss_index", 0))
          /\ UNCHANGED <<top_k, q_metadata, q_chunks, q_indices, q_distances>>
     ELSE qpc' = "raised" /\ QueryLocalsGone
  /\ UNCHANGED <<q_results, q_scores, buildVars, fileVars, otherVars>>

\* Lines 316-317.
QueryReadIndex ==
  /\ qpc = "read_index"
  /\ IF ReadFile(q_metadata.data.files.latest_faiss_index).st = "full"
     THEN /\ qpc' = "search"
          /\ q_index' = ReadFile(q_metadata.data.files.latest_faiss_index)
          /\ UNCHANGED <<top_k, q_metadata, q_chunks, q_indices, q_distances>>
     ELSE qpc' = "raised" /\ QueryLocalsGone
  /\ UNCHANGED <<q_results, q_scores, buildVars, fileVars, otherVars>>

\* Lines 320-323.  top_k, the argument of the call, is not read before this
\* line: its value is drawn here.
QuerySearch ==
  /\ qpc = "search"
  /\ top_k' \in 1..MaxTopK
  /\ q_indices' \in SearchAnswers(q_index.data, top_k')
  /\ q_distances' \in SearchDistances(q_index.data, top_k')
  /\ qpc' = "collect"
  /\ UNCHANGED <<q_metadata, q_chunks, q_index, q_results, q_scores, buildVars,
                 fileVars, otherVars>>

\* Lines 326-341.
QueryCollect ==
  /\ qpc = "collect"
  /\ IF CollectRaises(q_chunks.data.chunks, q_indices)
     THEN qpc' = "raised" /\ UNCHANGED <<q_results, q_scores>>
     ELSE /\ qpc' = "done"
          /\ q_results' = [list |-> CollectResults(q_chunks.data.chunks, q_indices, 1)]
          /\ q_scores' = CollectScores(q_chunks.data.chunks, q_indices, q_distances, 1)
  /\ QueryLocalsGone
  /\ UNCHANGED <<buildVars, fileVars, otherVars>>

Query ==
  \/ QueryBegin
  \/ QueryReadMetadata
  \/ QueryReadChunks
  \/ QueryReadIndex
  \/ QuerySearch
  \/ QueryCollect

(* ------------------------------ the pipeline --------------------------- *)

\* The corpus of the run that left the database a behaviour can start with,
\* and its chunk list.
EarlierCorpus == OneSection(<<ShortS>>)
EarlierChunks ==
  LET title == EarlierCorpus.results[1]
      part == title.parts[1]
  IN SectionChunks(title, part, part.sections[1], 1, <<>>)

\* The output directory as a successful run r with timestamp ts and chunk list
\* chunks leaves an empty one (lines 234-288).
Database(r, ts, chunks) ==
  LET emb == CreateEmbeddings(chunks)
      data == [k \in Kinds |->
                 CASE k = "text_chunks" -> [chunks |-> chunks]
                   [] k = "embeddings" -> emb
                   [] k = "faiss_index" -> CreateFaissIndex(emb)
                   [] k = "metadata" -> MetadataOf(ts, chunks, emb)]
  IN [latest |-> [k \in Kinds |-> Full(r, data[k])],
      stamped |-> [k \in Kinds |->
                     [t \in Timestamps |-> IF t = ts THEN Full(r, data[k]) ELSE Absent]]]

EmptyDirectory ==
  [latest |-> [k \in Kinds |-> Absent],
   stamped |-> [k \in Kinds |-> [t \in Timestamps |-> Absent]]]

\* The output directory is empty, or holds the database of an earlier run
\* (run 0, timestamp 0) over EarlierCorpus.
InitialDirectories == {EmptyDirectory, Database(0, 0, EarlierChunks)}

Init ==
  /\ bpc = "idle"
  /\ run = 0
  /\ content_data = None
  /\ ti = 1 /\ pi = 1 /\ si = 1 /\ ki = 1
  /\ current_chunk = <<>>
  /\ text_chunks = <<>>
  /\ embeddings = None
  /\ index = None
  /\ timestamp = 0
  /\ wopen = FALSE
  /\ bresult = None
  /\ now = 0
  /\ \E dir \in InitialDirectories :
       /\ latest = dir.latest
       /\ stamped = dir.stamped
       /\ input_dir = IF dir = EmptyDirectory THEN NoDirectory
                      ELSE Directory(<<CollectionSummary(1, EarlierCorpus)>>)
       /\ before = [latest |-> latest, stamped |-> stamped, input_dir |-> input_dir]
       /\ succeeded = IF dir = EmptyDirectory THEN -1 ELSE 0
  /\ IdleQuery
  /\ IdleCollect
  /\ IdlePool

Next == Build \/ Query

Spec == Init /\ [][Next]_vars

\* The database a behaviour can start with is one a run leaves: a run over
\* EarlierCorpus that succeeds in an empty directory leaves that database,
\* under its own run number and timestamp.
EarlierRunLeavesDatabase ==
  (/\ bpc = "done" /\ bresult # None
   /\ before.latest = EmptyDirectory.latest
   /\ before.stamped = EmptyDirectory.stamped
   /\ bresult.num_chunks = Len(EarlierChunks))
    => /\ latest = Database(run, bresult.timestamp, EarlierChunks).latest
       /\ stamped = Database(run, bresult.timestamp, EarlierChunks).stamped

(* ---------------------- properties of the build run -------------------- *)

\* C2 (as claimed): a run that failed, started over the four latest files of
\* an earlier run, left them as they were when it started.
C2_FailedRunLeavesLatest ==
  (bpc = "aborted" /\ \A k \in Kinds : before.latest[k].st = "full")
    => latest = before.latest

\* The run returned the metadata.
BuildSucceeded == bpc = "done" /\ bresult # None

\* The rows of a persisted chunk list, embedding matrix and index agree with
\* num_chunks and with each other, row by row.
Aligned(chunksFile, embFile, indexFile, num_chunks) ==
  /\ chunksFile.st = "full" /\ embFile.st = "full" /\ indexFile.st = "full"
  /\ Len(chunksFile.data.chunks) = num_chunks
  /\ Len(embFile.data.rows) = num_chunks
  /\ Len(indexFile.data.vectors) = num_chunks
  /\ \A i \in 1..num_chunks :
       /\ embFile.data.rows[i] = <<StrLen(chunksFile.data.chunks[i].text),
                                   Len(SplitWords(chunksFile.data.chunks[i].text))>>
       /\ indexFile.data.vectors[i] = embFile.data.rows[i]

\* C3: after a successful run the persisted chunk list, embedding matrix and
\* index (the latest files, and the files of the run's timestamp) have
\* num_chunks rows each, row i of the matrix and of the index is the vector of
\* the text of chunk i, and the index holds nothing else.
C3_PositionalAlignment ==
  BuildSucceeded =>
    /\ bresult.num_chunks > 0
    /\ Aligned(latest["text_chunks"], latest["embeddings"], latest["faiss_index"],
               bresult.num_chunks)
    /\ Aligned(ReadFile(bresult.files.text_chunks), ReadFile(bresult.files.embeddings),
               ReadFile(bresult.files.faiss_index), bresult.num_chunks)
    /\ latest["metadata"].st = "full"
    /\ latest["metadata"].data.num_chunks = bresult.num_chunks

\* A run succeeded over the files of an earlier one, with another number of
\* chunks than the earlier one had.
C3_Witness ==
  /\ BuildSucceeded
  /\ before.latest["faiss_index"].st = "full"
  /\ before.latest["metadata"].st = "full"
  /\ before.latest["metadata"].data.num_chunks # bresult.num_chunks
  /\ bresult.num_chunks = 3

\* The run has the chunk list of its corpus, and it is empty.
NothingToBuild == bpc = "check_chunks" /\ text_chunks = <<>>

\* The run returned None.
ReturnedNone == bpc = "done" /\ bresult = None

\* C7: a run whose corpus gives no chunk has written no file, and its next
\* step is to return None, no file written: it neither raises nor goes on.
C7_EmptyCorpus ==
  /\ []((NothingToBuild \/ ReturnedNone) =>
          /\ latest = before.latest
          /\ stamped = before.stamped)
  /\ [][(NothingToBuild /\ bpc' # bpc) =>
          (ReturnedNone' /\ UNCHANGED <<latest, stamped>>)]_vars

\* A run returned None, the files of the earlier run in place.
C7_Witness ==
  /\ ReturnedNone
  /\ run = 1
  /\ \A k \in Kinds : latest[k].st = "full" /\ latest[k].run = 0

(* ------------------------ properties of the query ---------------------- *)

\* The call holds a chunk list and an index.
LoadedPair == q_chunks # None /\ q_index # None

\* C8: the query takes its files one by one while a rebuild replaces them one
\* by one, chunk list first.  Whenever a call holds an index of a later run
\* than its chunk list, that run has replaced the latest chunk list since the
\* call loaded it: the pair is one no single run wrote.
C8_RebuildRace ==
  (LoadedPair /\ q_chunks.run < q_index.run) =>
    /\ latest["text_chunks"].run >= q_index.run
    /\ latest["text_chunks"] # q_chunks

\* A call that read the metadata and the chunk list of the earlier run and the
\* index of the run after it, which has not failed: it is at its metadata
\* writes or has returned.
C8_Witness ==
  /\ LoadedPair
  /\ q_metadata.run = 0
  /\ q_chunks.run = 0
  /\ q_index.run = 1
  /\ run = 1
  /\ bpc \in {"save_metadata", "latest_metadata", "done"}
  /\ Len(q_chunks.data.chunks) # Len(q_index.data.vectors)

\* The step of a call from the answer of the search to its end.
Collected == qpc = "collect" /\ qpc' # "collect"

\* The result entries of the rows of the answer, from position i on, that are
\* rows of the chunk list (0 .. len - 1).
RECURSIVE InRangeEntries(_, _, _)
InRangeEntries(chunks, indices, i) ==
  IF i > Len(indices) THEN <<>>
  ELSE IF indices[i] >= 0 /\ indices[i] < Len(chunks)
  THEN <<ResultEntry(chunks[indices[i] + 1])>> \o InRangeEntries(chunks, indices, i + 1)
  ELSE InRangeEntries(chunks, indices, i + 1)

\* C9 (as claimed): a row of the answer outside 0 .. len - 1 gives no result
\* entry and no error; the call returns the entries of the rows in range.
C9_DesyncDrop ==
  [][Collected =>
       /\ qpc' = "done"
       /\ q_results' = [list |-> InRangeEntries(q_chunks.data.chunks, q_indices, 1)]]_vars

\* A row of the answer is beyond the length of the chunk list.
RowBeyond ==
  \E i \in 1..Len(q_indices) : q_indices[i] > Len(q_chunks.data.chunks)

\* A row of the answer is at or beyond the length of the chunk list.
RowAtOrBeyond ==
  \E i \in 1..Len(q_indices) : q_indices[i] >= Len(q_chunks.data.chunks)

\* C10 (as claimed): a row beyond the length of the chunk list makes the call
\* return nothing.
C10_OutOfRangeFails ==
  [][(Collected /\ RowBeyond) => q_results' = None]_vars

\* The positions of the answer, in order, whose row is below bound n.
RECURSIVE Below(_, _, _)
Below(indices, n, i) ==
  IF i > Len(indices) THEN <<>>
  ELSE IF indices[i] < n THEN <<i>> \o Below(indices, n, i + 1)
  ELSE Below(indices, n, i + 1)

\* C10 (amended): a row at or beyond the length of the chunk list is skipped.
\* The call does not fail: it returns a list with one entry for each other row
\* of the answer, in the order of the answer, the entry of a row in
\* 0 .. len - 1 being that of the chunk at that position.
C10_OutOfRangeDropped ==
  [][(Collected /\ RowAtOrBeyond) =>
       /\ qpc' = "done"
       /\ q_results' # None
       /\ LET chunks == q_chunks.data.chunks
              kept == Below(q_indices, Len(chunks), 1)
          IN /\ Len(q_results'.list) = Len(kept)
             /\ \A j \in 1..Len(kept) :
                  q_indices[kept[j]] >= 0 =>
                    q_results'.list[j] = ResultEntry(chunks[q_indices[kept[j]] + 1])]_vars

\* A call with an index of three vectors and a chunk list of one chunk, about
\* to go through the answer <<2, 0>>: row 2 is beyond the list, row 0 is not.
C10_Witness ==
  /\ qpc = "collect"
  /\ Len(q_chunks.data.chunks) = 1
  /\ Len(q_index.data.vectors) = 3
  /\ q_indices = <<2, 0>>

\* A step of test_vector_search from outside a call: the call starts.
CallStarts == qpc \in {"idle", "done", "raised"} /\ queryVars' # queryVars

\* C11: a call that starts while latest_metadata.json does not exist is over
\* in that step: it returns None, it does not raise, and it has read neither
\* the metadata (with which the model is loaded), nor the chunk list, nor the
\* index.
C11_MissingMetadata ==
  [][(CallStarts /\ latest["metadata"].st = "absent") =>
       /\ qpc' = "done"
       /\ q_results' = None
       /\ q_metadata' = None /\ q_chunks' = None /\ q_index' = None]_vars

\* A call returned None while a run had written the latest chunk list, the
\* latest matrix and the latest index, but no latest_metadata.json yet.
C11_Witness ==
  /\ qpc = "done" /\ q_results = None
  /\ latest["metadata"].st = "absent"
  /\ latest["text_chunks"].st = "full"
  /\ latest["faiss_index"].st = "full"

\* Score a is at least score b.
ScoreGeq(a, b) == a.num * b.den >= b.num * a.den

\* The scores of a list do not go up along it.
NonIncreasing(scores) ==
  \A j \in 1..(Len(scores) - 1) : ScoreGeq(scores[j], scores[j + 1])

\* C12 (as claimed): the k-th result is that of the chunk the k-th row of the
\* answer indexes (text_chunks[idx]), with the score of the k-th distance, and
\* the scores do not go up along the list.
C12_KthResultKthRow ==
  [][(Collected /\ qpc' = "done") =>
       LET chunks == q_chunks.data.chunks IN
       /\ \A k \in 1..Len(q_results'.list) :
            /\ ~IndexError(chunks, q_indices[k])
            /\ q_results'.list[k] = ResultEntry(PyIndex(chunks, q_indices[k]))
            /\ q_scores'[k] = Score(q_distances[k])
       /\ NonIncreasing(q_scores')]_vars

\* C12 (amended): the results are those of the rows that pass the bound check
\* idx < len(text_chunks), in the order of the answer: the j-th result carries
\* the fields of the chunk the j-th such row indexes (a row at or beyond the
\* length is skipped and the results after it move up; -1 passes the check and
\* indexes the last chunk) and the score of that row's distance.  The scores
\* do not go up along the list.
C12_ResultMapping ==
  [][(Collected /\ qpc' = "done") =>
       LET chunks == q_chunks.data.chunks
           kept == Below(q_indices, Len(chunks), 1)
       IN /\ Len(q_results'.list) = Len(kept)
          /\ Len(q_scores') = Len(kept)
          /\ \A j \in 1..Len(kept) :
               /\ q_results'.list[j] = ResultEntry(PyIndex(chunks, q_indices[kept[j]]))
               /\ q_scores'[j] = Score(q_distances[kept[j]])
          /\ \A j \in 1..(Len(kept) - 1) : kept[j] < kept[j + 1]
          /\ NonIncreasing(q_scores')]_vars

\* A call returned two results of two chunks, the second with a lower score.
C12_Witness ==
  /\ qpc = "done" /\ q_results # None
  /\ Len(q_results.list) = 2
  /\ q_results.list[1] # q_results.list[2]
  /\ ~ScoreGeq(q_scores[2], q_scores[1])

(* ----------------------------- load_data ------------------------------- *)

\* load_data is over: the run leaves the position of line 210.
LoadOver == bpc = "load" /\ bpc' # "load"

\* C14 (as claimed): where there is no collection summary, INPUT_DIR absent or
\* without such a file, load_data returns, and returns no content.
C14_LoaderNeverRaises ==
  [][(LoadOver /\ (~input_dir.exists \/ input_dir.summaries = <<>>)) =>
       /\ bpc' = "extract"
       /\ content_data' = None]_vars

(* -------------------------- runs that follow runs ---------------------- *)

\* The run has written its latest chunk list over that of the run before it,
\* and both runs found the same corpus.
RebuiltSameCorpus ==
  /\ run >= 1
  /\ before.latest["text_chunks"].st = "full"
  /\ before.latest["text_chunks"].run = run - 1
  /\ latest["text_chunks"].st = "full"
  /\ latest["text_chunks"].run = run
  /\ before.input_dir.exists /\ input_dir.exists
  /\ LoadContent(before.input_dir) = LoadContent(input_dir)

\* A metadata dict without what names the run: its timestamp and its files.
Unstamped(metadata) == [metadata EXCEPT !.timestamp = 0, !.files = 0]

Names(files, path) == \E key \in DOMAIN files : files[key] = path

\* The latest file of a kind and the file of that kind under the timestamp of
\* the run that returned are both complete and hold the same content.
LatestIsStamped(kind) ==
  /\ latest[kind].st = "full"
  /\ stamped[kind][bresult.timestamp].st = "full"
  /\ latest[kind].data = stamped[kind][bresult.timestamp].data

\* The files record of the returned metadata names both paths of the kind.
BothPathsNamed(kind) ==
  /\ Names(bresult.files, StampedPath(kind, bresult.timestamp))
  /\ Names(bresult.files, LatestPath(kind))

\* C20 as stated: after a successful run each latest file (chunk list,
\* embedding matrix, index, metadata) has the content of the run's timestamped
\* file of its kind, and the files record of the metadata names the
\* timestamped and the latest path of each of the four.
C20_EveryArtifactNamed ==
  BuildSucceeded =>
    \A kind \in Kinds : LatestIsStamped(kind) /\ BothPathsNamed(kind)

\* C20: after a successful run each latest file (chunk list, embedding matrix,
\* index, metadata) has the content of the run's timestamped file of its kind;
\* the latest metadata is the metadata returned, and its files record names
\* the timestamped and the latest path of the chunk list, of the embedding
\* matrix and of the index, and no path of a metadata file.
C20_LatestMatchesStamped ==
  BuildSucceeded =>
    /\ \A kind \in Kinds : LatestIsStamped(kind)
    /\ latest["metadata"].data = bresult
    /\ \A kind \in Kinds \ {"metadata"} : BothPathsNamed(kind)
    /\ \A key \in DOMAIN bresult.files : bresult.files[key].kind # "metadata"

\* A run over a directory that held a database returned its metadata, and the
\* latest chunk list is no longer the one it found.
C20_Witness ==
  /\ BuildSucceeded
  /\ before.latest["text_chunks"].st = "full"
  /\ latest["text_chunks"].st = "full"
  /\ latest["text_chunks"].data # before.latest["text_chunks"].data
  /\ latest["text_chunks"].data = stamped["text_chunks"][bresult.timestamp].data

(* --------------------------- the stages of a run ------------------------ *)

\* The stage of create_vector_database a position belongs to: 1 load (line
\* 210), 2 chunk (line 213), 3 embed (line 220), 4 index (line 227), 5 persist
\* (lines 234-288); 0 before the first run, 6 when the run is over.
StageOf(pc) ==
  CASE pc = "idle" -> 0
    [] pc = "load" -> 1
    [] pc \in {"extract", "titles", "parts", "sections", "sentences",
               "check_chunks"} -> 2
    [] pc = "embed" -> 3
    [] pc = "index" -> 4
    [] pc \in {"done", "aborted"} -> 6
    [] OTHER -> 5

\* A step writes to a file of the output directory.
WritesFile == latest' # latest \/ stamped' # stamped

\* C21: within a run the stages load, chunk, embed, index, persist follow one
\* another in that order, a stage that was left is not entered again, and a new
\* run starts with load; a file of the output directory, timestamped or latest,
\* is written only in the persist stage, with the chunk list, the embedding
\* matrix and the index in hand.
C21_StageOrder ==
  /\ [][IF run' = run
        THEN StageOf(bpc') \in {StageOf(bpc), StageOf(bpc) + 1, 6}
        ELSE bpc' = "load"]_vars
  /\ [][WritesFile =>
          /\ StageOf(bpc) = 5
          /\ text_chunks # <<>>
          /\ embeddings # None
          /\ index # None]_vars

\* The first file of a run is open for writing: the run has its chunks, its
\* embeddings and its index.
C21_Witness ==
  /\ bpc = "save_chunks"
  /\ wopen
  /\ stamped["text_chunks"][timestamp].st = "partial"
  /\ text_chunks # <<>>
  /\ embeddings # None
  /\ index # None

(* ---------------------------- load_data alone --------------------------- *)

\* The collection summaries an input directory can hold: a timestamp of one
\* or two digits' worth, and a content.
LoadStamps == {1, 2, 10}
LoadContents == {NoContentCorpus, OneSection(<<ShortS>>), OneSection(<<MidS>>)}
LoadSummaries == {CollectionSummary(s, c) : s \in LoadStamps, c \in LoadContents}

\* The listings os.listdir can give: up to MaxFiles summaries in any order, no
\* two under one name.
LoadListings ==
  {l \in UNION {[1..n -> LoadSummaries] : n \in 0..MaxFiles} :
     \A i, j \in 1..Len(l) : l[i].stamp = l[j].stamp => i = j}

\* A run at the call of load_data, over any of the listings.
InitLoad ==
  /\ bpc = "load"
  /\ run = 1
  /\ content_data = None
  /\ ti = 1 /\ pi = 1 /\ si = 1 /\ ki = 1
  /\ current_chunk = <<>>
  /\ text_chunks = <<>>
  /\ embeddings = None
  /\ index = None
  /\ timestamp = 0
  /\ wopen = FALSE
  /\ bresult = None
  /\ succeeded = -1
  /\ before = [latest |-> [k \in Kinds |-> Absent],
               stamped |-> [k \in Kinds |-> [t \in Timestamps |-> Absent]],
               input_dir |-> NoDirectory]
  /\ input_dir \in {Directory(l) : l \in LoadListings}
  /\ now = 0
  /\ latest = [k \in Kinds |-> Absent]
  /\ stamped = [k \in Kinds |-> [t \in Timestamps |-> Absent]]
  /\ IdleQuery
  /\ IdleCollect
  /\ IdlePool

SpecLoad == InitLoad /\ [][Load]_vars

\* load_data has returned to a run over a directory with a collection summary.
Loaded == bpc = "extract" /\ input_dir.summaries # <<>>

\* The summaries of the input directory whose timestamp none exceeds.
MostRecent ==
  {i \in 1..Len(input_dir.summaries) :
     \A j \in 1..Len(input_dir.summaries) :
       input_dir.summaries[j].stamp <= input_dir.summaries[i].stamp}

\* C26: of the collection summaries of the input directory, load_data returns
\* the content of the one with the latest timestamp, which is the one with the
\* greatest name, and of no other.
C26_LoadsMostRecent ==
  Loaded =>
    /\ \A i \in MostRecent : content_data = input_dir.summaries[i].content
    /\ \A i \in MostRecent : \A j \in 1..Len(input_dir.summaries) :
         j # i => NameLess(FileName(input_dir.summaries[j].stamp),
                           FileName(input_dir.summaries[i].stamp))

\* Three summaries, the most recent neither first nor last in the listing and
\* with a first digit below that of an older one's last; its content, which no
\* other has, is the content returned.
C26_Witness ==
  /\ Loaded
  /\ Len(input_dir.summaries) = 3
  /\ input_dir.summaries[2].stamp = 10
  /\ input_dir.summaries[3].stamp = 2
  /\ \A j \in {1, 3} : input_dir.summaries[j].content # input_dir.summaries[2].content
  /\ content_data = input_dir.summaries[2].content

(* ------------------- runs and calls that do not overlap ----------------- *)

\* No run is under way; no call is under way.
Quiescent == bpc \in {"idle", "done", "aborted"}
NoCall == qpc \in {"idle", "done", "raised"}

\* The pipeline where a run takes its steps while no call is under way and, if
\* it fails, fails before its first write; a call takes its steps while no run
\* is under way.
QuietBuild ==
  /\ NoCall
  /\ Build
  /\ bpc' = "aborted" => StageOf(bpc) < 5

QuietQuery ==
  /\ Quiescent
  /\ Query

NextQuiet == QuietBuild \/ QuietQuery

SpecQuiet == Init /\ [][NextQuiet]_vars

\* The call holds the metadata, the chunk list and the index.
LoadedAll == q_metadata # None /\ q_chunks # None /\ q_index # None

\* C23: where every run returns or fails before its first write and no call
\* overlaps a run, the metadata, the chunk list and the index a call has loaded
\* were written by one run, the last run that returned the metadata.
C23_QuiescentConsistency ==
  LoadedAll =>
    /\ q_metadata.run = succeeded
    /\ q_chunks.run = succeeded
    /\ q_index.run = succeeded

\* A call after a run that rebuilt an earlier database holds the three files
\* of that run.
C23_Witness ==
  /\ LoadedAll
  /\ before.latest["metadata"].st = "full"
  /\ before.latest["metadata"].run = 0
  /\ succeeded = 1
  /\ q_metadata.run = 1
  /\ q_index.run = 1

(* --------------------------- the metadata last -------------------------- *)

\* The latest file of the kind exists, whole or cut short.
LatestExists(kind) == latest[kind].st # "absent"

\* The call is past the check of line 298 and has files to open.
PastExistenceCheck == qpc \in {"read_metadata", "read_chunks", "read_index"}

\* C24: in every state, a run that failed at any write included, if
\* latest_metadata.json exists then the latest chunk list, embeddings and index
\* exist; a call that passed the existence check of the metadata finds each
\* latest file it opens.
C24_MetadataLast ==
  /\ LatestExists("metadata") =>
       \A kind \in Kinds : LatestExists(kind)
  /\ PastExistenceCheck => \A kind \in Kinds : LatestExists(kind)

\* The first run in an empty directory has opened latest_metadata.json and not
\* yet filled it; a call has passed the existence check.
C24_Witness ==
  /\ \A kind \in Kinds : before.latest[kind].st = "absent"
  /\ run = 1
  /\ latest["metadata"].st = "partial"
  /\ qpc = "read_metadata"

(* -------------------------- the number of results ----------------------- *)

\* The chunk list and the index the call holds are those of one run, with a
\* vector for each chunk.
ConsistentPair ==
  /\ q_chunks.run = q_index.run
  /\ Len(q_chunks.data.chunks) = Len(q_index.data.vectors)

\* The rows of the answer, from position i on, that pass the check of line 328.
RECURSIVE KeptRows(_, _, _)
KeptRows(n, indices, i) ==
  IF i > Len(indices) THEN <<>>
  ELSE IF RowKept(indices[i], n)
  THEN <<indices[i]>> \o KeptRows(n, indices, i + 1)
  ELSE KeptRows(n, indices, i + 1)

\* The place in a list of n entries that list[idx] is, counted from 0.
PlaceOf(n, idx) == IF idx >= 0 THEN idx ELSE n + idx

\* C25 (as claimed): on a chunk list and an index of one run, n chunks, the
\* call returns; it returns one result for each row it kept and at most
\* min(top_k, n) results; every row it kept is one of 0 .. n-1; no chunk is
\* taken twice.  This with top_k > n too, the search filling the answer with -1.
C25_CountAndValidity ==
  [][(Collected /\ ConsistentPair) =>
       LET n == Len(q_chunks.data.chunks)
           kept == KeptRows(n, q_indices, 1)
       IN /\ qpc' = "done"
          /\ Len(q_results'.list) = Len(kept)
          /\ Len(q_results'.list) <= Min(top_k, n)
          /\ \A i \in 1..Len(kept) : kept[i] \in 0..(n - 1)
          /\ \A i, j \in 1..Len(kept) :
               i # j => PlaceOf(n, kept[i]) # PlaceOf(n, kept[j])]_vars

\* C25, where the search found top_k rows (top_k <= n): the results are top_k,
\* of rows of 0 .. n-1, no chunk twice.
C25_NoPadding ==
  [][(Collected /\ ConsistentPair /\ top_k <= Len(q_chunks.data.chunks)) =>
       LET n == Len(q_chunks.data.chunks)
           kept == KeptRows(n, q_indices, 1)
       IN /\ qpc' = "done"
          /\ Len(q_results'.list) = Len(kept)
          /\ Len(q_results'.list) = top_k
          /\ \A i \in 1..Len(kept) : kept[i] \in 0..(n - 1)
          /\ \A i, j \in 1..Len(kept) :
               i # j => PlaceOf(n, kept[i]) # PlaceOf(n, kept[j])]_vars

(* ------------------------- the timestamped files ------------------------ *)

\* The file of the kind and timestamp is one an earlier run wrote or began.
OfEarlierRun(kind, t) ==
  stamped[kind][t].st # "absent" /\ stamped[kind][t].run < run

\* C29 (as claimed): a step of a run changes no timestamped file that an
\* earlier run wrote; the timestamped files it changes are those of its own
\* timestamp.
C29_StampedPerRun ==
  [][\A kind \in Kinds : \A t \in Timestamps :
       stamped'[kind][t] # stamped[kind][t] =>
         /\ t = timestamp
         /\ ~OfEarlierRun(kind, t)]_vars

\* C29, for a run whose timestamp no earlier run had: it changes no
\* timestamped file of an earlier run.
C29_UnlessSameSecond ==
  [][\A kind \in Kinds : \A t \in Timestamps :
       (/\ stamped'[kind][t] # stamped[kind][t]
        /\ \A k \in Kinds : before.stamped[k][timestamp].st = "absent") =>
         /\ t = timestamp
         /\ ~OfEarlierRun(kind, t)]_vars

(* ------------------------------ termination ----------------------------- *)

\* The steps of a run none of whose calls raises.
BuildReturning ==
  \/ StartBuild
  \/ Load
  \/ Extract
  \/ CheckChunks
  \/ Embed
  \/ BuildIndex
  \/ Stamp
  \/ SaveChunks
  \/ SaveEmbeddings
  \/ SaveIndex
  \/ LatestChunks
  \/ LatestEmbeddings
  \/ LatestIndex
  \/ SaveMetadata
  \/ LatestMetadata

\* Runs in which every call returns: the interpreter takes the next step of
\* the run as long as there is one.
SpecReturning == Init /\ [][BuildReturning]_vars /\ WF_vars(BuildReturning)

\* C28: a run whose calls all return comes to its end, with the metadata or
\* with None; the loop over the sentences of a section starts at the first,
\* takes the next one at each step, and ends past the last.
C28_Termination ==
  /\ (bpc = "load" /\ input_dir.exists) ~> (bpc = "done")
  /\ [][bpc = "sentences" =>
          IF ki <= Len(Sentences)
          THEN bpc' = "sentences" /\ ki' = ki + 1 /\ <<ti, pi, si>>' = <<ti, pi, si>>
          ELSE bpc' = "sections" /\ si' = si + 1]_vars
  /\ [][(bpc # "sentences" /\ bpc' = "sentences") => ki' = 1]_vars

\* A run over a section of three sentences has returned the metadata of its
\* three chunks.
C28_Witness ==
  /\ bpc = "done"
  /\ bresult # None
  /\ bresult.num_chunks = 3
  /\ Len(LoadContent(input_dir).results[1].parts[1].sections[1].sentences) = 3

(* -------------------- hybrid_collector.collect_data -------------------- *)

\* The part lists a structure can give (lines 351-358): the parts of its
\* chapters one after the other, a part of two chapters twice.
PartLists == UNION {[1..n -> PartNums] : n \in 0..2}

\* The path of the sections file of a part (line 291).
SectionsFile(t, p) == <<t, p>>

\* What scrape_part_content returns when it succeeds (lines 297-301).
PartResult(t, p) == [sections_file |-> SectionsFile(t, p)]

CurTitleNumber == c_titles[c_ti]
CurPartNumber == c_parts[c_pi]

\* Lines 310-340: the titles from the API, the first max_titles of them.  With
\* no titles data the run returns, and writes no summary.
CollectBegin ==
  /\ cpc = "idle"
  /\ \/ /\ cpc' = "done"
        /\ UNCHANGED <<c_titles, c_ti, title_results>>
     \/ /\ \E n \in 0..MaxTitles : c_titles' = [i \in 1..n |-> i]
        /\ c_ti' = 1
        /\ title_results' = <<>>
        /\ cpc' = "title"
  /\ UNCHANGED <<c_parts, c_pi, part_results, sections_files, summary, c_log>>
  /\ UNCHANGED <<pipelineVars, poolVars>>

\* Lines 341-358: scrape_title_structure returns None for a title whose scrape
\* failed, and the title is passed over; else the parts of the structure.
ScrapeStructure ==
  /\ cpc = "title"
  /\ c_ti <= Len(c_titles)
  /\ \/ /\ c_log' = [c_log EXCEPT !.failed_titles = @ \cup {CurTitleNumber}]
        /\ c_ti' = c_ti + 1
        /\ UNCHANGED <<cpc, c_parts, c_pi, part_results>>
     \/ /\ c_parts' \in PartLists
        /\ part_results' = <<>>
        /\ c_pi' = 1
        /\ cpc' = "part"
        /\ UNCHANGED <<c_ti, c_log>>
  /\ UNCHANGED <<c_titles, title_results, sections_files, summary>>
  /\ UNCHANGED <<pipelineVars, poolVars>>

\* Mutant of ScrapePart: what scrape_part_content returns is kept, None or not.
ScrapePartKeepingNone ==
  /\ cpc = "part"
  /\ c_pi <= Len(c_parts)
  /\ LET t == CurTitleNumber
         p == CurPartNumber
     IN /\ \/ /\ UNCHANGED sections_files
              /\ part_results' = (p :> PartResult(t, p)) @@ part_results
              /\ c_log' = [c_log EXCEPT !.tried = @ \cup {<<t, p>>}]
           \/ /\ sections_files' = [sections_files EXCEPT ![<<t, p>>] = "full"]
              /\ part_results' = (p :> PartResult(t, p)) @@ part_results
              /\ c_log' = [c_log EXCEPT !.tried = @ \cup {<<t, p>>},
                                        !.written = @ \cup {<<t, p>>}]
  /\ c_pi' = c_pi + 1
  /\ UNCHANGED <<cpc, c_titles, c_ti, c_parts, title_results, summary>>
  /\ UNCHANGED <<pipelineVars, poolVars>>

\* Lines 360-366 with scrape_part_content (lines 226-308): the scrape fails
\* before the sections file is opened, or while the file is written (lines
\* 292-293), and returns None; or it writes the file and returns its record,
\* which is put under the part number.
ScrapePart ==
  /\ cpc = "part"
  /\ c_pi <= Len(c_parts)
  /\ LET t == CurTitleNumber
         p == CurPartNumber
     IN /\ \/ /\ UNCHANGED <<sections_files, part_results>>
              /\ c_log' = [c_log EXCEPT !.tried = @ \cup {<<t, p>>}]
           \/ /\ sections_files' = [sections_files EXCEPT ![<<t, p>>] = "partial"]
              /\ UNCHANGED part_results
              /\ c_log' = [c_log EXCEPT !.tried = @ \cup {<<t, p>>}]
           \/ /\ sections_files' = [sections_files EXCEPT ![<<t, p>>] = "full"]
              /\ part_results' = (p :> PartResult(t, p)) @@ part_results
              /\ c_log' = [c_log EXCEPT !.tried = @ \cup {<<t, p>>},
                                        !.written = @ \cup {<<t, p>>}]
  /\ c_pi' = c_pi + 1
  /\ UNCHANGED <<cpc, c_titles, c_ti, c_parts, title_results, summary>>
  /\ UNCHANGED <<pipelineVars, poolVars>>

\* Lines 371-375: the record of the title, after the last of its parts.
EndParts ==
  /\ cpc = "part"
  /\ c_pi > Len(c_parts)
  /\ title_results' = (CurTitleNumber :> [parts |-> part_results]) @@ title_results
  /\ c_ti' = c_ti + 1
  /\ cpc' = "title"
  /\ UNCHANGED <<c_titles, c_parts, c_pi, part_results, sections_files, summary,
                 c_log>>
  /\ UNCHANGED <<pipelineVars, poolVars>>

\* Lines 379-387: the summary, after the last title.
WriteSummary ==
  /\ cpc = "title"
  /\ c_ti > Len(c_titles)
  /\ summary' = [total_titles |-> Len(c_titles),
                 successful_titles |-> Cardinality(DOMAIN title_results),
                 results |-> title_results]
  /\ cpc' = "done"
  /\ UNCHANGED <<c_titles, c_ti, c_parts, c_pi, part_results, title_results,
                 sections_files, c_log>>
  /\ UNCHANGED <<pipelineVars, poolVars>>

Collect ==
  \/ CollectBegin
  \/ ScrapeStructure
  \/ ScrapePart
  \/ EndParts
  \/ WriteSummary

InitCollect == IdlePipeline /\ IdleCollect /\ IdlePool

SpecCollect == InitCollect /\ [][Collect]_vars

\* The step that writes the collection summary.
SummaryWritten == summary = None /\ summary' # None

MAX_WORKERS == 5

\* A future: pending, running, returned (with the dict download_title_data
\* returned, here its successful_downloads out of one file) or raised.
Future(st, downloads) == [st |-> st, downloads |-> downloads]

\* The futures that are done, and those that a worker thread is running.
Done == {i \in 1..Len(future) : future[i].st \in {"returned", "raised"}}
Running == {i \in 1..Len(future) : future[i].st = "running"}

\* Lines 145-160: the title URLs, the first max_titles of them.  With none the
\* call returns.
PoolBegin ==
  /\ ppc = "idle"
  /\ \E n \in 0..MaxUrls :
       /\ title_urls' = n
       /\ ppc' = IF n = 0 THEN "done" ELSE "submit"
  /\ results' = <<>>
  /\ UNCHANGED <<future, yielded, errors, totals>>
  /\ UNCHANGED <<pipelineVars, collectVars>>

\* Line 165: executor.submit for the next title.  When the last is submitted
\* the main thread goes on to as_completed.
Submit ==
  /\ ppc = "submit"
  /\ future' = Append(future, Future("pending", 0))
  /\ ppc' = IF Len(future) + 1 = title_urls THEN "collect" ELSE "submit"
  /\ UNCHANGED <<title_urls, yielded, results, errors, totals>>
  /\ UNCHANGED <<pipelineVars, collectVars>>

\* A worker thread that is free takes a pending future.
WorkerStart(i) ==
  /\ future[i].st = "pending"
  /\ Cardinality(Running) < MAX_WORKERS
  /\ future' = [future EXCEPT ![i] = Future("running", 0)]
  /\ UNCHANGED <<ppc, title_urls, yielded, results, errors, totals>>
  /\ UNCHANGED <<pipelineVars, collectVars>>

\* Mutant of WorkerReturn: the worker thread appends its result to results.
WorkerReturnAppending(i) ==
  /\ future[i].st = "running"
  /\ \E d \in {0, 1} :
       /\ future' = [future EXCEPT ![i] = Future("returned", d)]
       /\ results' = Append(results, [title |-> i, total_files |-> 1,
                                      successful_downloads |-> d])
  /\ UNCHANGED <<ppc, title_urls, yielded, errors, totals>>
  /\ UNCHANGED <<pipelineVars, collectVars>>

\* download_title_data (lines 119-143) returns its dict.
WorkerReturn(i) ==
  /\ future[i].st = "running"
  /\ \E d \in {0, 1} : future' = [future EXCEPT ![i] = Future("returned", d)]
  /\ UNCHANGED <<ppc, title_urls, yielded, results, errors, totals>>
  /\ UNCHANGED <<pipelineVars, collectVars>>

\* download_title_data raises: os.makedirs or open fails (lines 124-125 and
\* download_file, line 69; only request errors are caught).
WorkerRaise(i) ==
  /\ future[i].st = "running"
  /\ future' = [future EXCEPT ![i] = Future("raised", 0)]
  /\ UNCHANGED <<ppc, title_urls, yielded, results, errors, totals>>
  /\ UNCHANGED <<pipelineVars, collectVars>>

\* Lines 166-172: as_completed gives the main thread a future that is done and
\* that it has not given yet; the main thread appends its result, or logs the
\* error it raised.
AsCompleted(i) ==
  /\ ppc = "collect"
  /\ i \in Done \ yielded
  /\ yielded' = yielded \cup {i}
  /\ IF future[i].st = "returned"
     THEN /\ results' = Append(results, [title |-> i, total_files |-> 1,
                                         successful_downloads |-> future[i].downloads])
          /\ UNCHANGED errors
     ELSE /\ errors' = Append(errors, i)
          /\ UNCHANGED results
  /\ UNCHANGED <<ppc, title_urls, future, totals>>
  /\ UNCHANGED <<pipelineVars, collectVars>>

\* The sum of a field of the dicts of a list.
RECURSIVE SumOf(_, _)
SumOf(list, field) ==
  IF list = <<>> THEN 0 ELSE Head(list)[field] + SumOf(Tail(list), field)

\* Lines 172-177: as_completed has given every future; the executor is shut
\* down, which waits for the worker threads; the totals are summed.
LogSummary ==
  /\ ppc = "collect"
  /\ yielded = 1..Len(future)
  /\ Running = {}
  /\ totals' = [total_files |-> SumOf(results, "total_files"),
                total_downloads |-> SumOf(results, "successful_downloads"),
                titles |-> Len(results)]
  /\ ppc' = "done"
  /\ UNCHANGED <<title_urls, future, yielded, results, errors>>
  /\ UNCHANGED <<pipelineVars, collectVars>>

Download ==
  \/ PoolBegin
  \/ Submit
  \/ \E i \in 1..Len(future) : WorkerStart(i)
  \/ \E i \in 1..Len(future) : WorkerReturn(i)
  \/ \E i \in 1..Len(future) : WorkerRaise(i)
  \/ \E i \in 1..Len(future) : AsCompleted(i)
  \/ LogSummary

InitPool == IdlePipeline /\ IdleCollect /\ IdlePool

SpecPool == InitPool /\ [][Download]_vars

\* The number of the entries of results that are of title i, and of the
\* errors logged that are of title i.
ResultsOf(i) == Cardinality({k \in 1..Len(results) : results[k].title = i})
ErrorsOf(i) == Cardinality({k \in 1..Len(errors) : errors[k] = i})

\* C27: in every interleaving of the worker threads, no title has more than
\* one outcome, a result appended or an error logged, and len(results) is at
\* most the number of titles; a future the main thread was given has its
\* outcome; results changes by a step of the main thread alone; the totals are
\* summed when every worker has finished, and then every title submitted has
\* exactly one outcome.
C27_PoolAccounting ==
  /\ [](/\ \A i \in 1..title_urls : ResultsOf(i) + ErrorsOf(i) <= 1
        /\ Len(results) <= title_urls
        /\ \A i \in yielded : ResultsOf(i) + ErrorsOf(i) = 1
        /\ \A i \in yielded : (ResultsOf(i) = 1) = (future[i].st = "returned"))
  /\ [][results' # results => (ppc = "collect" /\ future' = future)]_vars
  /\ [][totals' # totals =>
          /\ Len(future) = title_urls
          /\ Done = 1..title_urls
          /\ \A i \in 1..title_urls : ResultsOf(i) + ErrorsOf(i) = 1]_vars

\* Three titles: the totals are summed; the first title raised and its error
\* is logged; the third finished before the second and is first in results.
C27_Witness ==
  /\ ppc = "done"
  /\ title_urls = 3
  /\ totals # None
  /\ totals.titles = 2
  /\ errors = <<1>>
  /\ results[1].title = 3
  /\ results[2].title = 2

====
